---- MODULE Spec2Model ----
(***************************************************************************)
(* A model of the Test Case Generator server: the GitHub repository        *)
(* adapter (GitHubService), its file classifier (isCodeFile,               *)
(* detectLanguage), the routes of the Express server and AIService, and    *)
(* the App and TestSummaries components of the client.                     *)
(*                                                                         *)
(* JavaScript strings are sequences of one-character strings, so that      *)
(* toLowerCase, lastIndexOf and substring are computed as the engine       *)
(* computes them.  U+0130 (capital I with dot above) stands for the one    *)
(* character whose lower-casing is two UTF-16 code units (i, U+0307).      *)
(***************************************************************************)
EXTENDS Integers, Sequences, FiniteSets, TLC

VARIABLES
  githubService,  \* "GitHubService" or "null": the module-level service of the server
  route,          \* the route of the request being served: "none", "repos", "files"
  pc,             \* where the request is: "idle", "awaitRepos", "awaitRepo", "awaitTree", "classify", "classified", "done"
  owner,          \* req.params.owner
  repo,           \* req.params.repo
  defaultBranch,  \* const defaultBranch of getRepositoryFiles
  tree,           \* treeResponse.data.tree
  codeFiles,      \* const codeFiles of getRepositoryFiles
  calls,          \* the outbound hosting-API calls this invocation has issued, in order
  thrown,         \* the errors this invocation of the adapter has thrown (their messages)
  resStatus,      \* HTTP status of the response, 0 while none was sent
  resBody,        \* the JSON body of the response
  run,            \* how many times the request has been issued
  hostReplies,    \* what the hosting API answered to the first run
  firstOutcome,   \* the response the first run ended with
  aiConfigured,   \* AIService.isConfigured (genAI is set exactly when it is TRUE)
  reqBody,        \* req.body of the generation request being served
  prompt,         \* what the prompt sent to the model embeds
  modelText,      \* response.text() of the model call
  aiResult,       \* what the generation adapter returned
  inflight,       \* the handlers the server runs at once: for each request its locals (req, res, the consts of the adapter)
  selectedRepo,   \* App: the repository selected in the client, Null when none
  repoFiles,      \* App: files, the file list shown
  selectedFiles,  \* App: the set of selected paths
  loading,        \* App: loading.files
  fileRequests,   \* App: the calls of fetchRepositoryFiles that await their response, oldest first
  generatedCodes, \* TestSummaries: summaryId -> generated code
  loadingCode,    \* TestSummaries: the summaryIds shown as loading
  codeErrors,     \* TestSummaries: summaryId -> error message
  codeRequests    \* TestSummaries: the summaryIds of the calls of generateTestCode that await their response, oldest first

vars ==
  <<githubService, route, pc, owner, repo, defaultBranch, tree, codeFiles,
    calls, thrown, resStatus, resBody, run, hostReplies, firstOutcome,
    aiConfigured, reqBody, prompt, modelText, aiResult,
    inflight, selectedRepo, repoFiles, selectedFiles, loading, fileRequests,
    generatedCodes, loadingCode, codeErrors, codeRequests>>

\* The state of the generation routes and of AIService.
aiVars ==
  <<aiConfigured, reqBody, prompt, modelText, aiResult>>

\* The state of the repository routes and of GitHubService.
ghVars ==
  <<githubService, owner, repo, defaultBranch, tree, codeFiles, hostReplies>>

\* The handlers of requests served at once.
concurrentVars ==
  <<inflight>>

\* The state of the client: the App component and the TestSummaries
\* component.
appVars ==
  <<selectedRepo, repoFiles, selectedFiles, loading, fileRequests>>

summariesVars ==
  <<generatedCodes, loadingCode, codeErrors, codeRequests>>

clientVars ==
  <<appVars, summariesVars>>

(***************************************************************************)
(* Bounds of the model.                                                    *)
(***************************************************************************)
MaxPathLen ==
  4

MaxTreeLen ==
  3

MaxRepos ==
  2

Null ==
  "<null>"

(***************************************************************************)
(* JavaScript string operations.                                           *)
(***************************************************************************)
UpperCase ==
  { "A", "B", "C", "D", "E", "F", "G", "H", "I", "J", "K", "L", "M", "N", "O", "P", "Q", "R", "S", "T", "U", "V", "W", "X", "Y", "Z" }

LowerOfUpper(ch) ==
  CASE ch = "A" -> "a"
    [] ch = "B" -> "b"
    [] ch = "C" -> "c"
    [] ch = "D" -> "d"
    [] ch = "E" -> "e"
    [] ch = "F" -> "f"
    [] ch = "G" -> "g"
    [] ch = "H" -> "h"
    [] ch = "I" -> "i"
    [] ch = "J" -> "j"
    [] ch = "K" -> "k"
    [] ch = "L" -> "l"
    [] ch = "M" -> "m"
    [] ch = "N" -> "n"
    [] ch = "O" -> "o"
    [] ch = "P" -> "p"
    [] ch = "Q" -> "q"
    [] ch = "R" -> "r"
    [] ch = "S" -> "s"
    [] ch = "T" -> "t"
    [] ch = "U" -> "u"
    [] ch = "V" -> "v"
    [] ch = "W" -> "w"
    [] ch = "X" -> "x"
    [] ch = "Y" -> "y"
    [] ch = "Z" -> "z"

\* String.prototype.toLowerCase on one character: full Unicode case mapping,
\* under which U+0130 becomes the two code units "i", U+0307.
CharToLowerCase(ch) ==
  IF ch \in UpperCase THEN <<LowerOfUpper(ch)>>
  ELSE IF ch = "U+0130" THEN <<"i", "U+0307">>
  ELSE <<ch>>

RECURSIVE ToLowerCase(_)
ToLowerCase(s) ==
  IF s = <<>> THEN <<>>
  ELSE CharToLowerCase(Head(s)) \o ToLowerCase(Tail(s))

\* String.prototype.lastIndexOf: the 0-based index of the last ch, -1 if none.
LastIndexOf(s, ch) ==
  LET I == { i \in 1..Len(s) : s[i] = ch }
  IN  IF I = {} THEN -1
      ELSE (CHOOSE i \in I : \A j \in I : j <= i) - 1

\* String.prototype.substring(start): start is clamped to 0..length.
Substring(s, start) ==
  LET from == IF start < 0 THEN 0
              ELSE IF start > Len(s) THEN Len(s)
              ELSE start
  IN  SubSeq(s, from + 1, Len(s))

(***************************************************************************)
(* The file classifier of GitHubService.                                   *)
(***************************************************************************)
codeExtensions ==
  { <<".","j","s">>,
    <<".","j","s","x">>,
    <<".","t","s">>,
    <<".","t","s","x">>,
    <<".","m","j","s">>,
    <<".","c","j","s">>,
    <<".","p","y">>,
    <<".","p","y","w">>,
    <<".","p","y","i">>,
    <<".","j","a","v","a">>,
    <<".","c","l","a","s","s">>,
    <<".","j","a","r">>,
    <<".","c">>,
    <<".","c","p","p">>,
    <<".","c","c">>,
    <<".","c","x","x">>,
    <<".","h">>,
    <<".","h","p","p">>,
    <<".","h","h">>,
    <<".","h","x","x">>,
    <<".","c","s">>,
    <<".","c","s","x">>,
    <<".","g","o">>,
    <<".","r","s">>,
    <<".","p","h","p">>,
    <<".","p","h","t","m","l">>,
    <<".","r","b">>,
    <<".","r","b","w">>,
    <<".","s","w","i","f","t">>,
    <<".","k","t">>,
    <<".","k","t","s">>,
    <<".","s","c","a","l","a">>,
    <<".","s","c">>,
    <<".","r">>,
    <<".","R">>,
    <<".","m">>,
    <<".","s","h">>,
    <<".","b","a","s","h">>,
    <<".","z","s","h">>,
    <<".","f","i","s","h">>,
    <<".","s","q","l">>,
    <<".","h","t","m","l">>,
    <<".","h","t","m">>,
    <<".","c","s","s">>,
    <<".","s","c","s","s">>,
    <<".","s","a","s","s">>,
    <<".","l","e","s","s">>,
    <<".","j","s","o","n">>,
    <<".","x","m","l">>,
    <<".","y","a","m","l">>,
    <<".","y","m","l">>,
    <<".","t","o","m","l">>,
    <<".","v","u","e">>,
    <<".","s","v","e","l","t","e">>,
    <<".","d","a","r","t">>,
    <<".","e","l","m">>,
    <<".","c","l","j">>,
    <<".","c","l","j","s">>,
    <<".","h","s">>,
    <<".","m","l">>,
    <<".","f","s">> }

languageMapKeys ==
  { <<".","j","s">>,
    <<".","j","s","x">>,
    <<".","t","s">>,
    <<".","t","s","x">>,
    <<".","m","j","s">>,
    <<".","c","j","s">>,
    <<".","p","y">>,
    <<".","p","y","w">>,
    <<".","p","y","i">>,
    <<".","j","a","v","a">>,
    <<".","c">>,
    <<".","c","p","p">>,
    <<".","c","c">>,
    <<".","c","x","x">>,
    <<".","c","s">>,
    <<".","g","o">>,
    <<".","r","s">>,
    <<".","p","h","p">>,
    <<".","r","b">>,
    <<".","s","w","i","f","t">>,
    <<".","k","t">>,
    <<".","s","c","a","l","a">>,
    <<".","r">>,
    <<".","s","h">>,
    <<".","b","a","s","h">>,
    <<".","s","q","l">>,
    <<".","h","t","m","l">>,
    <<".","h","t","m">>,
    <<".","c","s","s">>,
    <<".","s","c","s","s">>,
    <<".","s","a","s","s">>,
    <<".","v","u","e">>,
    <<".","d","a","r","t">>,
    <<".","j","s","o","n">>,
    <<".","x","m","l">>,
    <<".","y","a","m","l">>,
    <<".","y","m","l">> }

languageMap[e \in languageMapKeys] ==
  CASE e = <<".","j","s">> -> "JavaScript"
    [] e = <<".","j","s","x">> -> "JavaScript"
    [] e = <<".","t","s">> -> "TypeScript"
    [] e = <<".","t","s","x">> -> "TypeScript"
    [] e = <<".","m","j","s">> -> "JavaScript"
    [] e = <<".","c","j","s">> -> "JavaScript"
    [] e = <<".","p","y">> -> "Python"
    [] e = <<".","p","y","w">> -> "Python"
    [] e = <<".","p","y","i">> -> "Python"
    [] e = <<".","j","a","v","a">> -> "Java"
    [] e = <<".","c">> -> "C"
    [] e = <<".","c","p","p">> -> "C++"
    [] e = <<".","c","c">> -> "C++"
    [] e = <<".","c","x","x">> -> "C++"
    [] e = <<".","c","s">> -> "C#"
    [] e = <<".","g","o">> -> "Go"
    [] e = <<".","r","s">> -> "Rust"
    [] e = <<".","p","h","p">> -> "PHP"
    [] e = <<".","r","b">> -> "Ruby"
    [] e = <<".","s","w","i","f","t">> -> "Swift"
    [] e = <<".","k","t">> -> "Kotlin"
    [] e = <<".","s","c","a","l","a">> -> "Scala"
    [] e = <<".","r">> -> "R"
    [] e = <<".","s","h">> -> "Shell"
    [] e = <<".","b","a","s","h">> -> "Shell"
    [] e = <<".","s","q","l">> -> "SQL"
    [] e = <<".","h","t","m","l">> -> "HTML"
    [] e = <<".","h","t","m">> -> "HTML"
    [] e = <<".","c","s","s">> -> "CSS"
    [] e = <<".","s","c","s","s">> -> "SCSS"
    [] e = <<".","s","a","s","s">> -> "Sass"
    [] e = <<".","v","u","e">> -> "Vue"
    [] e = <<".","d","a","r","t">> -> "Dart"
    [] e = <<".","j","s","o","n">> -> "JSON"
    [] e = <<".","x","m","l">> -> "XML"
    [] e = <<".","y","a","m","l">> -> "YAML"
    [] e = <<".","y","m","l">> -> "YAML"

\* The extension both isCodeFile and detectLanguage compute: the index of the
\* last "." is taken in path and applied to path.toLowerCase().
ExtensionOf(path) ==
  Substring(ToLowerCase(path), LastIndexOf(path, "."))

isCodeFile(path) ==
  ExtensionOf(path) \in codeExtensions

\* Variant of detectLanguage: the extension is looked up without lower-casing.
detectLanguage_CaseSensitive(path) ==
  LET extension == Substring(path, LastIndexOf(path, "."))
  IN  IF extension \in languageMapKeys THEN languageMap[extension] ELSE Null

\* Variant of detectLanguage: the table has no entry for ".json".
detectLanguage_JsonUnmapped(path) ==
  LET extension == ExtensionOf(path)
  IN  IF extension \in languageMapKeys \ {<<".","j","s","o","n">>}
      THEN languageMap[extension] ELSE Null

\* detectLanguage: languageMap[extension] || null.
detectLanguage(path) ==
  LET extension == ExtensionOf(path)
  IN  IF extension \in languageMapKeys THEN languageMap[extension] ELSE Null

(***************************************************************************)
(* Tree entries of the hosting API (GitHubTreeItem).  A field the reply    *)
(* leaves out is marked by hasPath / hasSize = FALSE.                      *)
(***************************************************************************)
Item(type, hasPath, path, hasSize, size, sha) ==
  [type |-> type, hasPath |-> hasPath, path |-> path,
   hasSize |-> hasSize, size |-> size, sha |-> sha]

\* Variant of FilterCallback: the test of item.type is left out.
FilterCallback_NoTypeCheck(item) ==
  IF ~item.hasPath THEN "throw"
  ELSE IF isCodeFile(item.path) THEN "true"
  ELSE "false"

\* The callback of .filter: "true", "false", or "throw" when isCodeFile
\* dereferences a path that is undefined (path.toLowerCase()).
FilterCallback(item) ==
  IF item.type # "blob" THEN "false"
  ELSE IF ~item.hasPath THEN "throw"
  ELSE IF isCodeFile(item.path) THEN "true"
  ELSE "false"

\* Variant of MapCallback: the size of the entry is not copied.
MapCallback_SizeDropped(item, o, r, branch) ==
  [path |-> item.path, type |-> "file", language |-> detectLanguage(item.path),
   size |-> 0, sha |-> item.sha,
   download_url |-> <<o, r, branch, item.path>>]

\* The callback of .map: the CodeFile of a tree entry; size is item.size || 0.
MapCallback(item, o, r, branch) ==
  [path |-> item.path,
   type |-> "file",
   language |-> detectLanguage(item.path),
   size |-> IF item.hasSize /\ item.size # 0 THEN item.size ELSE 0,
   sha |-> item.sha,
   download_url |-> <<o, r, branch, item.path>>]

\* Variant of ArrayFilter: the kept entries come out in reverse order.
RECURSIVE ArrayFilter_Reversed(_)
ArrayFilter_Reversed(arr) ==
  IF arr = <<>> THEN [threw |-> FALSE, items |-> <<>>]
  ELSE LET v == FilterCallback(Head(arr))
       IN  IF v = "throw" THEN [threw |-> TRUE, items |-> <<>>]
           ELSE LET rest == ArrayFilter_Reversed(Tail(arr))
                IN  IF rest.threw THEN rest
                    ELSE [threw |-> FALSE,
                          items |-> IF v = "true"
                                    THEN rest.items \o <<Head(arr)>>
                                    ELSE rest.items]

\* Array.prototype.filter with FilterCallback: the entries kept, in order;
\* a callback that throws ends the whole call.
RECURSIVE ArrayFilter(_)
ArrayFilter(arr) ==
  IF arr = <<>> THEN [threw |-> FALSE, items |-> <<>>]
  ELSE LET v == FilterCallback(Head(arr))
       IN  IF v = "throw" THEN [threw |-> TRUE, items |-> <<>>]
           ELSE LET rest == ArrayFilter(Tail(arr))
                IN  IF rest.threw THEN rest
                    ELSE [threw |-> FALSE,
                          items |-> IF v = "true"
                                    THEN <<Head(arr)>> \o rest.items
                                    ELSE rest.items]

\* Array.prototype.map with MapCallback.
ArrayMap(arr, o, r, branch) ==
  [i \in 1..Len(arr) |-> MapCallback(arr[i], o, r, branch)]

\* Variant of ClassifyTree: the records are appended to those of the call
\* before, as if codeFiles were a field of the service.
ClassifyTree_Accumulating(t, o, r, branch) ==
  LET kept == ArrayFilter(t)
  IN  IF kept.threw THEN [threw |-> TRUE, files |-> <<>>]
      ELSE [threw |-> FALSE, files |-> codeFiles \o ArrayMap(kept.items, o, r, branch)]

\* .filter(...).map(...) over treeResponse.data.tree.
ClassifyTree(t, o, r, branch) ==
  LET kept == ArrayFilter(t)
  IN  IF kept.threw THEN [threw |-> TRUE, files |-> <<>>]
      ELSE [threw |-> FALSE, files |-> ArrayMap(kept.items, o, r, branch)]

(***************************************************************************)
(* Errors and their messages.  A message is a sequence of words, so that   *)
(* String.prototype.includes is a search for a run of words.               *)
(***************************************************************************)
Err(isError, message, hasResponse, responseMessage) ==
  [isError |-> isError, message |-> message,
   hasResponse |-> hasResponse, responseMessage |-> responseMessage]

NoErr ==
  Err(FALSE, <<>>, FALSE, <<>>)

StatusCode404Message ==
  <<"Request", "failed", "with", "status", "code", "404">>

\* What a hosting-API call can fail with: an axios error carrying the
\* provider's message, one carrying none, a transport error without a
\* response, and a thrown value that is no Error.
HostFailures ==
  { Err(TRUE, StatusCode404Message, TRUE, <<"Not", "Found">>),
    Err(TRUE, <<"Request", "failed", "with", "status", "code", "401">>, TRUE,
        <<"Bad", "credentials">>),
    Err(TRUE, StatusCode404Message, TRUE, <<>>),
    Err(TRUE, <<"Network", "Error">>, FALSE, <<>>),
    Err(FALSE, <<>>, FALSE, <<>>) }

\* The TypeError of undefined.toLowerCase().
TypeErrorOfUndefinedPath ==
  Err(TRUE, <<"Cannot", "read", "properties", "of", "undefined">>, FALSE, <<>>)

\* The catch blocks of getRepositories and getRepositoryFiles: the message of
\* the Error they throw.
ServiceErrorMessage(prefix, err) ==
  LET errorMessage == IF err.isError THEN err.message
                      ELSE <<"Unknown", "error", "occurred">>
  IN  IF err.hasResponse /\ err.responseMessage # <<>>
      THEN prefix \o err.responseMessage
      ELSE prefix \o errorMessage

FilesPrefix ==
  <<"Failed", "to", "fetch", "repository", "files:">>

ReposPrefix ==
  <<"Failed", "to", "fetch", "repositories:">>

\* String.prototype.includes on messages.
Includes(msg, phrase) ==
  \E i \in 0..(Len(msg) - Len(phrase)) :
    SubSeq(msg, i + 1, i + Len(phrase)) = phrase

\* Variant of FilesErrorStatus: every failure is a 500.
FilesErrorStatus_Always500(msg) ==
  500

\* The status of the files route for a caught Error.
FilesErrorStatus(msg) ==
  IF Includes(msg, <<"Not", "Found">>) THEN 404 ELSE 500

(***************************************************************************)
(* Response bodies.                                                        *)
(***************************************************************************)
Body(success, error, message, list, total, fullName) ==
  [success |-> success, error |-> error, message |-> message,
   list |-> list, total |-> total, full_name |-> fullName]

NoBody ==
  Body(FALSE, "", <<>>, <<>>, 0, <<>>)

NotConfiguredBody ==
  Body(FALSE, "GitHub integration not configured",
       <<"GITHUB_TOKEN", "environment", "variable", "is", "required">>,
       <<>>, 0, <<>>)

(***************************************************************************)
(* Inputs.                                                                 *)
(***************************************************************************)
PathSrcAppTs ==
  <<"s","r","c","/","a","p","p",".","t","s">>

PathLibJs ==
  <<"l","i","b",".","j","s">>

PathSrc ==
  <<"s","r","c">>

PathReadme ==
  <<"R","E","A","D","M","E">>

PathDottedDirReadme ==
  <<"v","1",".","j","s","/","R","E","A","D","M","E">>

PathScriptDot ==
  <<"s","c","r","i","p","t",".">>

PathUnknownExt ==
  <<"d","a","t","a",".","u","n","k","n","o","w","n","e","x","t">>

PathMainPy ==
  <<"m","a","i","n",".","p","y">>

PathConfigJson ==
  <<"c","o","n","f","i","g",".","j","s","o","n">>

PathToml ==
  <<"x",".","t","o","m","l">>

PathUpperR ==
  <<"p","l","o","t",".","R">>

PathVendor ==
  <<"v","e","n","d","o","r","/","k","i","t",".","j","s">>

PathAlphabet ==
  {".", "/", "c", "s", "C", "U+0130"}

\* Every path over PathAlphabet of at most MaxPathLen characters, and the
\* paths the specification names.
SmallPaths ==
  UNION { [1..n -> PathAlphabet] : n \in 0..MaxPathLen }

NamedPaths ==
  { PathSrcAppTs, PathLibJs, PathSrc, PathReadme, PathDottedDirReadme,
    PathScriptDot, PathUnknownExt, PathMainPy, PathConfigJson, PathToml,
    PathUpperR, PathVendor }

ClassifierItems ==
  { Item(ty, TRUE, p, TRUE, 120, "sha0") :
      ty \in {"blob", "tree"}, p \in SmallPaths \cup NamedPaths }

\* The entries a tree reply is made of; their shas are distinct.
TreePool ==
  { Item("blob", TRUE, PathSrcAppTs, TRUE, 120, "sha1"),
    Item("tree", TRUE, PathSrc, FALSE, 0, "sha2"),
    Item("tree", TRUE, PathLibJs, FALSE, 0, "sha3"),
    Item("blob", TRUE, PathMainPy, TRUE, 0, "sha4"),
    Item("blob", TRUE, PathReadme, TRUE, 7, "sha5"),
    Item("blob", FALSE, <<>>, TRUE, 3, "sha6"),
    Item("blob", TRUE, PathConfigJson, FALSE, 0, "sha7"),
    Item("commit", TRUE, PathVendor, FALSE, 0, "sha8"),
    Item("blob", TRUE, PathToml, TRUE, 40, "sha9"),
    Item("tree", FALSE, <<>>, FALSE, 0, "sha10") }

Trees ==
  { t \in UNION { [1..n -> TreePool] : n \in 0..MaxTreeLen } :
      \A i, j \in 1..Len(t) : i # j => t[i] # t[j] }

Owners ==
  {"acme"}

RepoNames ==
  {"widgets", "gadgets"}

\* data.default_branch of the repository lookup; "" is an absent branch.
BranchReplies ==
  {"", "dev"}

RepoLists ==
  UNION { [1..n -> RepoNames] : n \in 0..MaxRepos }

(***************************************************************************)
(* Replies of the hosting API, recorded so that a repeated request can be  *)
(* answered as the first one was.                                          *)
(***************************************************************************)
Reply(ok, branch, t, err) ==
  [ok |-> ok, branch |-> branch, tree |-> t, err |-> err]

NoReply ==
  Reply(FALSE, "", <<>>, NoErr)

Outcome(status, body) ==
  [status |-> status, body |-> body]

\* The replies a call can get: any of all on the first run, and on a repeated
\* request the reply the first request got.
Answers(call, ok, all) ==
  IF run = 1 THEN all ELSE { reply \in {hostReplies[call]} : reply.ok = ok }

(***************************************************************************)
(* AIService: the summary parser.  A model output is a sequence of tokens: *)
(* the JSON punctuation "[", "]", ",", white space " " and "\n", "prose"   *)
(* (text that is no JSON), and element tokens, each a whole JSON value.    *)
(***************************************************************************)
\* A parsed JSON value: its kind and, for an object, the types and values of
\* its summaryId and summaryText members ("undefined" when it has none).
JVal(kind, idType, id, textType, text) ==
  [kind |-> kind, idType |-> idType, id |-> id,
   textType |-> textType, text |-> text]

ElementTokens ==
  {"A", "A2", "B", "NUMID", "NOTEXT", "null", "7"}

\* The value JSON.parse gives for an element token:
\*   A      {"summaryId":"a","summaryText":"x"}
\*   A2     {"summaryId":"a","summaryText":"y"}
\*   B      {"summaryId":"b","summaryText":"z"}
\*   NUMID  {"summaryId":123,"summaryText":"y"}
\*   NOTEXT {"summaryId":"c"}
ElementValue(tok) ==
  CASE tok = "A" -> JVal("object", "string", "a", "string", "x")
    [] tok = "A2" -> JVal("object", "string", "a", "string", "y")
    [] tok = "B" -> JVal("object", "string", "b", "string", "z")
    [] tok = "NUMID" -> JVal("object", "number", "123", "string", "y")
    [] tok = "NOTEXT" -> JVal("object", "string", "c", "undefined", "")
    [] tok = "null" -> JVal("null", "undefined", "", "undefined", "")
    [] tok = "7" -> JVal("number", "undefined", "", "undefined", "")

WhiteSpace ==
  {" ", "\n"}

\* String.prototype.trim: white space is dropped at both ends.
RECURSIVE TrimStart(_)
TrimStart(s) ==
  IF s # <<>> /\ Head(s) \in WhiteSpace THEN TrimStart(Tail(s)) ELSE s

RECURSIVE TrimEnd(_)
TrimEnd(s) ==
  IF s # <<>> /\ s[Len(s)] \in WhiteSpace
  THEN TrimEnd(SubSeq(s, 1, Len(s) - 1))
  ELSE s

Trim(s) ==
  TrimEnd(TrimStart(s))

\* White space between JSON tokens is skipped by JSON.parse.
SkipWhiteSpace(s) ==
  SelectSeq(s, LAMBDA tok : tok \notin WhiteSpace)

ParseFailed ==
  [ok |-> FALSE, next |-> 0, isArray |-> FALSE, val |-> JVal("none", "undefined", "", "undefined", ""), items |-> <<>>]

\* JSON.parse, by recursive descent over the tokens from position i on:
\* a value is an element or an array "[" value ("," value)* "]".  An array
\* inside an array is kept as a value of kind "array".
RECURSIVE ParseValue(_, _)
RECURSIVE ParseElements(_, _)
ParseValue(s, i) ==
  IF i > Len(s) THEN ParseFailed
  ELSE IF s[i] \in ElementTokens
  THEN [ok |-> TRUE, next |-> i + 1, isArray |-> FALSE, val |-> ElementValue(s[i]), items |-> <<>>]
  ELSE IF s[i] = "["
  THEN IF i + 1 <= Len(s) /\ s[i + 1] = "]"
       THEN [ok |-> TRUE, next |-> i + 2, isArray |-> TRUE,
             val |-> JVal("array", "undefined", "", "undefined", ""), items |-> <<>>]
       ELSE LET els == ParseElements(s, i + 1)
            IN  IF els.ok
                THEN [ok |-> TRUE, next |-> els.next, isArray |-> TRUE,
                      val |-> JVal("array", "undefined", "", "undefined", ""),
                      items |-> els.items]
                ELSE ParseFailed
  ELSE ParseFailed

\* The elements of an array from position i on, up to and with its "]".
ParseElements(s, i) ==
  LET v == ParseValue(s, i)
  IN  IF ~v.ok \/ v.next > Len(s) THEN ParseFailed
      ELSE IF s[v.next] = "]"
      THEN [ok |-> TRUE, next |-> v.next + 1, isArray |-> TRUE, val |-> v.val,
            items |-> <<v.val>>]
      ELSE IF s[v.next] = ","
      THEN LET rest == ParseElements(s, v.next + 1)
           IN  IF rest.ok
               THEN [ok |-> TRUE, next |-> rest.next, isArray |-> TRUE,
                     val |-> v.val, items |-> <<v.val>> \o rest.items]
               ELSE ParseFailed
      ELSE ParseFailed

\* JSON.parse of a whole text: it throws (ok = FALSE) unless the text is
\* exactly one value.
JSONParse(text) ==
  LET s == SkipWhiteSpace(text)
      v == ParseValue(s, 1)
  IN  IF v.ok /\ v.next = Len(s) + 1 THEN v ELSE ParseFailed

\* cleanText.match(/\[[\s\S]*\]/): from the first "[" to the last "]".
HasJsonMatch(clean) ==
  \E i, j \in 1..Len(clean) : i < j /\ clean[i] = "[" /\ clean[j] = "]"

JsonMatch(clean) ==
  LET first == CHOOSE i \in 1..Len(clean) :
                 clean[i] = "[" /\ \A k \in 1..(i - 1) : clean[k] # "["
      last == CHOOSE j \in 1..Len(clean) :
                clean[j] = "]" /\ \A k \in (j + 1)..Len(clean) : clean[k] # "]"
  IN  SubSeq(clean, first, last)

\* The callback of parsed.filter: item && typeof item.summaryId === "string"
\* && typeof item.summaryText === "string".
\* Variant of IsSummary: summaryText is not looked at.
IsSummary_IdOnly(item) ==
  /\ item.kind # "null"
  /\ item.idType = "string"

IsSummary(item) ==
  /\ item.kind # "null"
  /\ item.idType = "string"
  /\ item.textType = "string"

FilterSummaries(items) ==
  SelectSeq(items, IsSummary)

\* The single summary the catch block returns.
\* Variant of ParseErrorSummary: the catch block returns no summary.
ParseErrorSummary_Empty ==
  <<>>

ParseErrorSummary ==
  <<JVal("object", "string", "parse-error-1", "string",
         "AI generated response but failed to parse. Please try again or check the selected files.")>>

\* parseAIResponse: a throw inside the try block ends in the catch block.
parseAIResponse(text) ==
  LET cleanText == Trim(text)
      matched == HasJsonMatch(cleanText)
      parsed == JSONParse(JsonMatch(cleanText))
      whole == JSONParse(cleanText)
  IN  IF matched /\ ~parsed.ok THEN ParseErrorSummary
      ELSE IF matched /\ parsed.isArray THEN FilterSummaries(parsed.items)
      ELSE IF ~whole.ok THEN ParseErrorSummary
      ELSE IF whole.isArray THEN FilterSummaries(whole.items)
      ELSE ParseErrorSummary

(***************************************************************************)
(* AIService: the request of a generation route, and the labels of         *)
(* buildCodePrompt and parseCodeResponse.                                  *)
(***************************************************************************)
\* A JavaScript value of a request field: its type and, for a string, its
\* characters.
JS(type, str) ==
  [type |-> type, str |-> str]

Undefined ==
  JS("undefined", <<>>)

JStr(str) ==
  JS("string", str)

\* An element of files: null, or an object with filename and content.
FileInput(type, filename, content) ==
  [type |-> type, filename |-> filename, content |-> content]

\* files of a request body: its type and, for an array, its elements.
Files(type, items) ==
  [type |-> type, items |-> items]

Request(files, summaryId, summaryText, fileContent, filename) ==
  [files |-> files, summaryId |-> summaryId, summaryText |-> summaryText,
   fileContent |-> fileContent, filename |-> filename]

NoRequest ==
  Request(Files("undefined", <<>>), Undefined, Undefined, Undefined, Undefined)

\* if (value) of JavaScript.
Truthy(v) ==
  CASE v.type = "string" -> v.str # <<>>
    [] v.type = "number" -> v.str # <<"0">>
    [] OTHER -> FALSE

\* A prompt: the labels it names and, for each file, the text embedded for
\* its content.
Prompt(built, language, framework, sources) ==
  [built |-> built, language |-> language, framework |-> framework,
   sources |-> sources]

NoPrompt ==
  Prompt(FALSE, "", "", <<>>)

SummaryContentLimit ==
  2000

CodeContentLimit ==
  3000

\* The markers: "... (truncated)" in buildPrompt, the same after a newline
\* in buildCodePrompt.
SummaryTruncationMarker ==
  "... (truncated)"

CodeTruncationMarker ==
  "\n... (truncated)"

\* Variant of Embed: the marker is appended from the limit on.
Embed_MarkerAtLimit(content, limit, marker) ==
  SubSeq(content, 1, IF Len(content) < limit THEN Len(content) ELSE limit)
    \o (IF Len(content) >= limit THEN <<marker>> ELSE <<>>)

\* content.slice(0, limit) followed by the marker when content.length > limit.
Embed(content, limit, marker) ==
  SubSeq(content, 1, IF Len(content) < limit THEN Len(content) ELSE limit)
    \o (IF Len(content) > limit THEN <<marker>> ELSE <<>>)

\* buildPrompt: one embedded text per file, in the order of files.
buildPrompt(files) ==
  Prompt(TRUE, "", "",
         [i \in 1..Len(files) |->
            Embed(files[i].content.str, SummaryContentLimit, SummaryTruncationMarker)])

Result(summaries, code, language, testFramework, aiProvider) ==
  [summaries |-> summaries, code |-> code, language |-> language,
   testFramework |-> testFramework, aiProvider |-> aiProvider]

NoResult ==
  Result(<<>>, <<>>, "", "", "")

\* No request is served beside the one of route and pc.
NoneInFlight ==
  inflight = <<>>

\* The client as it is mounted: no repository, no files, no generation.
AppIdle ==
  /\ selectedRepo = "null"
  /\ repoFiles = <<>>
  /\ selectedFiles = {}
  /\ loading = FALSE
  /\ fileRequests = <<>>

\* new Map()
EmptyMap ==
  [key \in {} |-> ""]

SummariesIdle ==
  /\ generatedCodes = EmptyMap
  /\ loadingCode = {}
  /\ codeErrors = EmptyMap
  /\ codeRequests = <<>>

ClientIdle ==
  /\ AppIdle
  /\ SummariesIdle

AIIdle ==
  /\ aiConfigured = TRUE
  /\ reqBody = NoRequest
  /\ prompt = NoPrompt
  /\ modelText = <<>>
  /\ aiResult = NoResult

\* Variant of FileExtension: the file name is not lower-cased.
FileExtension_CaseSensitive(filename) ==
  IF filename.type \in {"undefined", "null"} THEN <<>>
  ELSE Substring(filename.str, LastIndexOf(filename.str, ".") + 1)

\* filename?.toLowerCase().split(".").pop() || "": the lower-cased text
\* after the last ".", the whole lower-cased name when it has none.
FileExtension(filename) ==
  IF filename.type \in {"undefined", "null"} THEN <<>>
  ELSE LET lower == ToLowerCase(filename.str)
       IN  Substring(lower, LastIndexOf(lower, ".") + 1)

ReactMarker ==
  <<"R","e","a","c","t">>

\* isReact of buildCodePrompt and of parseCodeResponse.
IsReact(request) ==
  \/ Includes(request.fileContent.str, ReactMarker)
  \/ FileExtension(request.filename) = <<"t","s","x">>
  \/ FileExtension(request.filename) = <<"j","s","x">>

IsTypeScript(request) ==
  FileExtension(request.filename) \in {<<"t","s">>, <<"t","s","x">>}

IsPython(request) ==
  FileExtension(request.filename) = <<"p","y">>

\* filename?.toLowerCase() and fileContent.includes throw a TypeError on
\* a value that has no such method.
CodePromptThrows(request) ==
  \/ request.filename.type \notin {"undefined", "null", "string"}
  \/ request.fileContent.type # "string"

\* Variant of buildCodePrompt: isReact is overwritten by isTypeScript.
buildCodePrompt_TypeScriptLast(request) ==
  Prompt(TRUE,
         IF IsPython(request) THEN "Python"
         ELSE IF IsTypeScript(request) THEN "TypeScript"
         ELSE "JavaScript",
         IF IsPython(request) THEN "pytest"
         ELSE IF IsTypeScript(request) THEN "Jest"
         ELSE IF IsReact(request) THEN "Jest + React Testing Library"
         ELSE "Jest",
         <<Embed(request.fileContent.str, CodeContentLimit, CodeTruncationMarker)>>)

\* buildCodePrompt: framework and language start as "Jest" and "JavaScript"
\* and are overwritten by the three if statements in turn.
buildCodePrompt(request) ==
  LET framework1 == IF IsReact(request) THEN "Jest + React Testing Library"
                    ELSE "Jest"
      language2 == IF IsTypeScript(request) THEN "TypeScript" ELSE "JavaScript"
  IN  Prompt(TRUE,
             IF IsPython(request) THEN "Python" ELSE language2,
             IF IsPython(request) THEN "pytest" ELSE framework1,
             <<Embed(request.fileContent.str, CodeContentLimit, CodeTruncationMarker)>>)

(***************************************************************************)
(* AIService: the code parser.  A model output is a sequence of tokens:    *)
(* "FENCE" (three backticks), a word of word characters, "\n", " " and     *)
(* "CODE", a line of code that has characters other than word characters.  *)
(***************************************************************************)
WordTokens ==
  {"typescript"}

\* The length of the match of the opening fence line (three backticks, word
\* characters, "\n") at the start of s, 0 when there is none.
OpeningLength(s) ==
  IF s = <<>> \/ Head(s) # "FENCE" THEN 0
  ELSE LET K == { k \in 2..Len(s) : s[k] \notin WordTokens }
       IN  IF K = {} THEN 0
           ELSE LET first == CHOOSE k \in K : \A j \in K : k <= j
                IN  IF s[first] = "\n" THEN first ELSE 0

\* The first replace of parseCodeResponse: the opening fence line is removed.
StripOpening(s) ==
  SubSeq(s, OpeningLength(s) + 1, Len(s))

\* Variant of StripClosing: the closing marker is left in place.
StripClosing_Kept(s) ==
  s

\* The second replace: "\n" and three backticks at the end are removed.
StripClosing(s) ==
  IF Len(s) >= 2 /\ s[Len(s) - 1] = "\n" /\ s[Len(s)] = "FENCE"
  THEN SubSeq(s, 1, Len(s) - 2)
  ELSE s

\* Variant of parseCodeResponse: a fence with a language word makes the
\* language TypeScript.
parseCodeResponse_LanguageFromFence(text, request) ==
  LET cleanCode == StripClosing(StripOpening(Trim(text)))
      fenced == OpeningLength(Trim(text)) > 2
  IN  Result(<<>>, cleanCode,
             IF IsPython(request) THEN "Python"
             ELSE IF IsTypeScript(request) \/ fenced THEN "TypeScript"
             ELSE "JavaScript",
             IF IsPython(request) THEN "pytest"
             ELSE IF IsReact(request) THEN "Jest + React Testing Library"
             ELSE "Jest",
             "")

\* parseCodeResponse: the code without its fence, and the labels of the
\* if / else if chain.
parseCodeResponse(text, request) ==
  LET cleanCode == StripClosing(StripOpening(Trim(text)))
  IN  Result(<<>>, cleanCode,
             IF IsPython(request) THEN "Python"
             ELSE IF IsTypeScript(request) THEN "TypeScript"
             ELSE "JavaScript",
             IF IsPython(request) THEN "pytest"
             ELSE IF IsTypeScript(request)
             THEN (IF IsReact(request) THEN "Jest + React Testing Library"
                   ELSE "Jest")
             ELSE IF IsReact(request) THEN "Jest + React Testing Library"
             ELSE "Jest",
             "")

(***************************************************************************)
(* Inputs of the code parser.                                              *)
(***************************************************************************)
MaxCodeLen ==
  5

MaxNameLen ==
  3

CodeAlphabet ==
  {"FENCE", "typescript", "\n", "CODE", " "}

\* CODE wrapped in a typescript fence.
TextFencedTypescript ==
  <<"FENCE", "typescript", "\n", "CODE", "\n", "FENCE">>

\* The same with white space around it and two lines of code.
TextFencedPadded ==
  <<"\n", " ", "FENCE", "\n", "CODE", "\n", " ", "CODE", "\n", "FENCE", " ", "\n">>

\* Code without any fence.
TextPlainCode ==
  <<" ", "CODE", "\n", "CODE", "\n">>

NamedCodeTexts ==
  { TextFencedTypescript, TextFencedPadded, TextPlainCode }

CodeTexts ==
  UNION { [1..n -> CodeAlphabet] : n \in 0..MaxCodeLen } \cup NamedCodeTexts

NameAlphabet ==
  {".", "t", "s", "x", "T"}

NamedFileNames ==
  { <<"a","p","p",".","t","s">>,
    <<"A","p","p",".","t","s","x">>,
    <<"A","p","p",".","T","S","X">>,
    <<"v","i","e","w",".","j","s","x">>,
    <<"l","i","b",".","j","s">>,
    <<"m","a","i","n",".","p","y">>,
    <<"M","A","I","N",".","P","Y">>,
    <<"p","y">>,
    <<"n","o","t","e","s",".","t","x","t">>,
    <<"a",".","t","s",".","b","a","k">>,
    <<"a",".","t","e","s","t",".","t","s">>,
    <<"M","a","i","n",".","j","a","v","a">>,
    <<"M","a","k","e","f","i","l","e">> }

\* request.filename: absent, or a string: every name over NameAlphabet of at
\* most MaxNameLen characters and the named file names.
FileNames ==
  {Undefined}
    \cup { JStr(n) : n \in UNION { [1..k -> NameAlphabet] : k \in 0..MaxNameLen } }
    \cup { JStr(n) : n \in NamedFileNames }

\* request.fileContent: with and without the marker "React".
FileContents ==
  { JStr(<<"R","e","a","c","t">>),
    JStr(<<"i","m","p","o","r","t"," ","R","e","a","c","t",";">>),
    JStr(<<"r","e","a","c","t">>),
    JStr(<<"R","e","a","c">>),
    JStr(<<"P","r","e","R","e","a","c","t","i","v","e">>),
    JStr(<<"d","e","f"," ","f","(",")",":">>),
    JStr(<<"x">>) }

SummaryIdS1 ==
  JStr(<<"s","1">>)

SummaryTextT ==
  JStr(<<"t","e","s","t","s"," ","a","d","d">>)

CodeRequests ==
  { Request(Files("undefined", <<>>), SummaryIdS1, SummaryTextT, c, n) :
      c \in FileContents, n \in FileNames }

\* A plain TypeScript file, a React component and a Python file.
NamedCodeRequests ==
  { Request(Files("undefined", <<>>), SummaryIdS1, SummaryTextT,
            JStr(<<"x">>), JStr(<<"a","p","p",".","t","s">>)),
    Request(Files("undefined", <<>>), SummaryIdS1, SummaryTextT,
            JStr(<<"R","e","a","c","t">>),
            JStr(<<"v","i","e","w",".","j","s","x">>)),
    Request(Files("undefined", <<>>), SummaryIdS1, SummaryTextT,
            JStr(<<"d","e","f"," ","f","(",")",":">>),
            JStr(<<"m","a","i","n",".","p","y">>)) }

(***************************************************************************)
(* Inputs of the summary parser.                                           *)
(***************************************************************************)
MaxJsonLen ==
  4

JsonAlphabet ==
  {"[", "]", ",", " ", "prose", "A", "A2", "NUMID"}

\* "not json at all"
TextNotJson ==
  <<"prose">>

\* "[]"
TextEmptyArray ==
  <<"[", "]">>

\* Valid ids "a" and "b" around one element with a numeric id.
TextNumericIdBetween ==
  <<"[", "A", ",", "NUMID", ",", "B", "]">>

\* The model repeats the summaryId "a".
TextRepeatedId ==
  <<"[", "A", ",", " ", "A2", "]">>

\* null, a number, an object without summaryText, an array, and "b".
TextMixed ==
  <<"[", "null", ",", "7", ",", "NOTEXT", ",", "[", "A", "]", ",", "B", "]">>

\* An array inside prose, as in a fenced or commented answer.
TextArrayInProse ==
  <<"\n", "prose", " ", "[", "A", ",", "B", "]", "\n", "prose", " ">>

\* Only elements that fail the shape constraint.
TextNoValidElement ==
  <<"[", "NUMID", ",", "NOTEXT", ",", "null", "]">>

NamedSummaryTexts ==
  { TextNotJson, TextEmptyArray, TextNumericIdBetween, TextRepeatedId,
    TextMixed, TextArrayInProse, TextNoValidElement }

\* Every text over JsonAlphabet of at most MaxJsonLen tokens, and the named
\* texts.
SummaryTexts ==
  UNION { [1..n -> JsonAlphabet] : n \in 0..MaxJsonLen } \cup NamedSummaryTexts

(***************************************************************************)
(* The server: requireGitHub, GET /api/repos, GET /api/repos/:o/:r/files.  *)
(***************************************************************************)
Init ==
  /\ githubService \in {"GitHubService", "null"}
  /\ route = "none"
  /\ pc = "idle"
  /\ owner = ""
  /\ repo = ""
  /\ defaultBranch = ""
  /\ tree = <<>>
  /\ codeFiles = <<>>
  /\ calls = <<>>
  /\ thrown = <<>>
  /\ resStatus = 0
  /\ resBody = NoBody
  /\ run = 0
  /\ hostReplies = [repo |-> NoReply, tree |-> NoReply]
  /\ firstOutcome = Outcome(0, NoBody)
  /\ AIIdle
  /\ NoneInFlight
  /\ ClientIdle

\* Variant of Respond503: the missing service is answered like any failure.
Respond503_As500 ==
  /\ resStatus' = 500
  /\ resBody' = NotConfiguredBody
  /\ pc' = "done"
  /\ calls' = <<>>
  /\ thrown' = <<>>

\* requireGitHub answering 503 when the service was never constructed.
Respond503 ==
  /\ resStatus' = 503
  /\ resBody' = NotConfiguredBody
  /\ pc' = "done"
  /\ calls' = <<>>
  /\ thrown' = <<>>

\* GET /api/repos arrives: requireGitHub, then getRepositories issues its call.
RequestRepos ==
  /\ pc = "idle"
  /\ run = 0
  /\ route' = "repos"
  /\ run' = 1
  /\ IF githubService = "null"
     THEN Respond503
     ELSE /\ calls' = <<"GET /user/repos">>
          /\ thrown' = <<>>
          /\ pc' = "awaitRepos"
          /\ UNCHANGED <<resStatus, resBody>>
  /\ UNCHANGED <<githubService, owner, repo, defaultBranch, tree, codeFiles,
                 hostReplies, firstOutcome>>
  /\ UNCHANGED aiVars
  /\ UNCHANGED <<concurrentVars, clientVars>>

\* The repository list arrives: the handler answers it with its length.
ReposReply ==
  /\ pc = "awaitRepos"
  /\ \E repos \in RepoLists :
       /\ resStatus' = 200
       /\ resBody' = Body(TRUE, "", <<>>, repos, Len(repos), <<>>)
  /\ pc' = "done"
  /\ UNCHANGED <<githubService, route, owner, repo, defaultBranch, tree,
                 codeFiles, calls, thrown, run, hostReplies, firstOutcome>>
  /\ UNCHANGED aiVars
  /\ UNCHANGED <<concurrentVars, clientVars>>

\* The call of getRepositories fails: its catch throws, the handler answers 500.
ReposFail ==
  /\ pc = "awaitRepos"
  /\ \E err \in HostFailures :
       LET msg == ServiceErrorMessage(ReposPrefix, err)
       IN  /\ thrown' = Append(thrown, msg)
           /\ resStatus' = 500
           /\ resBody' = Body(FALSE, "Failed to fetch repositories", msg, <<>>, 0, <<>>)
  /\ pc' = "done"
  /\ UNCHANGED <<githubService, route, owner, repo, defaultBranch, tree,
                 codeFiles, calls, run, hostReplies, firstOutcome>>
  /\ UNCHANGED aiVars
  /\ UNCHANGED <<concurrentVars, clientVars>>

\* The files handler up to the first await of getRepositoryFiles.  Express
\* never routes an empty :owner or :repo, so Owners and RepoNames hold none
\* and the 400 branch is not taken.
ServeFiles(o, r) ==
  /\ route' = "files"
  /\ owner' = o
  /\ repo' = r
  /\ IF githubService = "null"
     THEN Respond503
     ELSE IF o = "" \/ r = ""
     THEN /\ resStatus' = 400
          /\ resBody' = Body(FALSE, "Missing required parameters",
                             <<"Both", "owner", "and", "repo", "parameters",
                               "are", "required">>, <<>>, 0, <<>>)
          /\ pc' = "done"
          /\ calls' = <<>>
          /\ thrown' = <<>>
     ELSE /\ calls' = <<"GET /repos/:owner/:repo">>
          /\ thrown' = <<>>
          /\ pc' = "awaitRepo"
          /\ resStatus' = 0
          /\ resBody' = NoBody
  /\ UNCHANGED <<githubService, defaultBranch, tree, codeFiles, hostReplies>>

\* GET /api/repos/:owner/:repo/files arrives.
RequestFiles ==
  /\ pc = "idle"
  /\ run = 0
  /\ run' = 1
  /\ \E o \in Owners, r \in RepoNames : ServeFiles(o, r)
  /\ UNCHANGED firstOutcome
  /\ UNCHANGED aiVars
  /\ UNCHANGED <<concurrentVars, clientVars>>

\* The same request is issued a second time after its response.
RequestAgain ==
  /\ pc = "done"
  /\ route = "files"
  /\ run = 1
  /\ run' = 2
  /\ firstOutcome' = Outcome(resStatus, resBody)
  /\ ServeFiles(owner, repo)
  /\ UNCHANGED aiVars
  /\ UNCHANGED <<concurrentVars, clientVars>>

\* The catch of getRepositoryFiles throws, and the catch of the handler
\* answers with 404 or 500.
FilesCatch(err) ==
  LET msg == ServiceErrorMessage(FilesPrefix, err)
  IN  /\ thrown' = Append(thrown, msg)
      /\ resStatus' = FilesErrorStatus(msg)
      /\ resBody' = Body(FALSE, "Failed to fetch repository files", msg, <<>>, 0, <<>>)
      /\ pc' = "done"

Record(call, reply) ==
  hostReplies' = IF run = 1 THEN [hostReplies EXCEPT ![call] = reply]
                 ELSE hostReplies

\* The repository lookup succeeds: the default branch is read and the tree
\* call is issued.
RepoReply ==
  /\ pc = "awaitRepo"
  /\ \E reply \in Answers("repo", TRUE, { Reply(TRUE, b, <<>>, NoErr) : b \in BranchReplies }) :
       /\ Record("repo", reply)
       /\ defaultBranch' = IF reply.branch = "" THEN "main" ELSE reply.branch
  /\ calls' = Append(calls, "GET /repos/:owner/:repo/git/trees/:branch")
  /\ pc' = "awaitTree"
  /\ UNCHANGED <<githubService, route, owner, repo, tree, codeFiles, thrown,
                 resStatus, resBody, run, firstOutcome>>
  /\ UNCHANGED aiVars
  /\ UNCHANGED <<concurrentVars, clientVars>>

\* Variant of RepoFail: the lookup is issued once more before giving up.
RepoFail_Retrying ==
  /\ pc = "awaitRepo"
  /\ \E reply \in Answers("repo", FALSE, { Reply(FALSE, "", <<>>, err) : err \in HostFailures }) :
       /\ Record("repo", reply)
       /\ FilesCatch(reply.err)
  /\ calls' = Append(calls, "GET /repos/:owner/:repo")
  /\ UNCHANGED <<githubService, route, owner, repo, defaultBranch, tree,
                 codeFiles, run, firstOutcome>>
  /\ UNCHANGED aiVars
  /\ UNCHANGED <<concurrentVars, clientVars>>

\* The repository lookup fails.
RepoFail ==
  /\ pc = "awaitRepo"
  /\ \E reply \in Answers("repo", FALSE, { Reply(FALSE, "", <<>>, err) : err \in HostFailures }) :
       /\ Record("repo", reply)
       /\ FilesCatch(reply.err)
  /\ UNCHANGED <<githubService, route, owner, repo, defaultBranch, tree,
                 codeFiles, calls, run, firstOutcome>>
  /\ UNCHANGED aiVars
  /\ UNCHANGED <<concurrentVars, clientVars>>

\* The tree arrives and is classified; a TypeError of the classification is
\* caught like a failed call.
TreeReply ==
  /\ pc = "awaitTree"
  /\ \E reply \in Answers("tree", TRUE, { Reply(TRUE, "", t, NoErr) : t \in Trees }) :
       LET c == ClassifyTree(reply.tree, owner, repo, defaultBranch)
       IN  /\ Record("tree", reply)
           /\ tree' = reply.tree
           /\ IF c.threw
              THEN /\ FilesCatch(TypeErrorOfUndefinedPath)
                   /\ UNCHANGED codeFiles
              ELSE /\ codeFiles' = c.files
                   /\ resStatus' = 200
                   /\ resBody' = Body(TRUE, "", <<>>, c.files, Len(c.files),
                                      <<owner, "/", repo>>)
                   /\ pc' = "done"
                   /\ UNCHANGED thrown
  /\ UNCHANGED <<githubService, route, owner, repo, defaultBranch, calls, run,
                 firstOutcome>>
  /\ UNCHANGED aiVars
  /\ UNCHANGED <<concurrentVars, clientVars>>

\* The tree call fails.
TreeFail ==
  /\ pc = "awaitTree"
  /\ \E reply \in Answers("tree", FALSE, { Reply(FALSE, "", <<>>, err) : err \in HostFailures }) :
       /\ Record("tree", reply)
       /\ FilesCatch(reply.err)
  /\ UNCHANGED <<githubService, route, owner, repo, defaultBranch, tree,
                 codeFiles, calls, run, firstOutcome>>
  /\ UNCHANGED aiVars
  /\ UNCHANGED <<concurrentVars, clientVars>>

Next ==
  \/ RequestRepos
  \/ ReposReply
  \/ ReposFail
  \/ RequestFiles
  \/ RequestAgain
  \/ RepoReply
  \/ RepoFail
  \/ TreeReply
  \/ TreeFail

Spec ==
  Init /\ [][Next]_vars

(***************************************************************************)
(* The classifier alone, on one tree entry: every path over PathAlphabet   *)
(* up to MaxPathLen and the named paths, as a blob and as a tree.          *)
(***************************************************************************)
InitClassifier ==
  /\ githubService = "GitHubService"
  /\ route = "files"
  /\ pc = "classify"
  /\ owner = "acme"
  /\ repo = "widgets"
  /\ defaultBranch = "main"
  /\ tree \in { <<it>> : it \in ClassifierItems }
  /\ codeFiles = <<>>
  /\ calls = <<>>
  /\ thrown = <<>>
  /\ resStatus = 0
  /\ resBody = NoBody
  /\ run = 1
  /\ hostReplies = [repo |-> NoReply, tree |-> NoReply]
  /\ firstOutcome = Outcome(0, NoBody)
  /\ AIIdle
  /\ NoneInFlight
  /\ ClientIdle

Classify ==
  /\ pc = "classify"
  /\ LET c == ClassifyTree(tree, owner, repo, defaultBranch)
     IN  /\ ~c.threw
         /\ codeFiles' = c.files
  /\ pc' = "classified"
  /\ UNCHANGED <<githubService, route, owner, repo, defaultBranch, tree, calls,
                 thrown, resStatus, resBody, run, hostReplies, firstOutcome>>
  /\ UNCHANGED aiVars
  /\ UNCHANGED <<concurrentVars, clientVars>>

NextClassifier ==
  Classify

SpecClassifier ==
  InitClassifier /\ [][NextClassifier]_vars

(***************************************************************************)
(* The summary parser alone, on one model output: every text over          *)
(* JsonAlphabet up to MaxJsonLen and the named texts.                      *)
(***************************************************************************)
\* No repository request is in progress.
GHIdle ==
  /\ githubService = "GitHubService"
  /\ owner = ""
  /\ repo = ""
  /\ defaultBranch = ""
  /\ tree = <<>>
  /\ codeFiles = <<>>
  /\ hostReplies = [repo |-> NoReply, tree |-> NoReply]

InitSummaryParser ==
  /\ GHIdle
  /\ route = "parseAIResponse"
  /\ pc = "parse"
  /\ calls = <<>>
  /\ thrown = <<>>
  /\ resStatus = 0
  /\ resBody = NoBody
  /\ run = 1
  /\ firstOutcome = Outcome(0, NoBody)
  /\ aiConfigured = TRUE
  /\ reqBody = NoRequest
  /\ prompt = NoPrompt
  /\ modelText \in SummaryTexts
  /\ aiResult = NoResult
  /\ NoneInFlight
  /\ ClientIdle

ParseSummaries ==
  /\ pc = "parse"
  /\ route = "parseAIResponse"
  /\ aiResult' = Result(parseAIResponse(modelText), <<>>, "", "", "")
  /\ pc' = "parsed"
  /\ UNCHANGED <<route, calls, thrown, resStatus, resBody, run, firstOutcome>>
  /\ UNCHANGED <<aiConfigured, reqBody, prompt, modelText>>
  /\ UNCHANGED ghVars
  /\ UNCHANGED <<concurrentVars, clientVars>>

NextSummaryParser ==
  ParseSummaries

SpecSummaryParser ==
  InitSummaryParser /\ [][NextSummaryParser]_vars

(***************************************************************************)
(* The prompt builder and the code parser alone, on one request and one    *)
(* model output: every text with a named request, and every request with   *)
(* a named text.  The two are called a second time on the same input.      *)
(***************************************************************************)
InitCodeParser ==
  /\ GHIdle
  /\ route = "parseCodeResponse"
  /\ pc = "build"
  /\ calls = <<>>
  /\ thrown = <<>>
  /\ resStatus = 0
  /\ resBody = NoBody
  /\ run = 1
  /\ firstOutcome = Outcome(0, NoBody)
  /\ aiConfigured = TRUE
  /\ \/ reqBody \in NamedCodeRequests /\ modelText \in CodeTexts
     \/ reqBody \in CodeRequests /\ modelText \in NamedCodeTexts
  /\ prompt = NoPrompt
  /\ aiResult = NoResult
  /\ NoneInFlight
  /\ ClientIdle

BuildCodePrompt ==
  /\ pc = "build"
  /\ route = "parseCodeResponse"
  /\ prompt' = buildCodePrompt(reqBody)
  /\ pc' = "built"
  /\ UNCHANGED <<route, calls, thrown, resStatus, resBody, run, firstOutcome>>
  /\ UNCHANGED <<aiConfigured, reqBody, modelText, aiResult>>
  /\ UNCHANGED ghVars
  /\ UNCHANGED <<concurrentVars, clientVars>>

ParseCode ==
  /\ pc = "built"
  /\ route = "parseCodeResponse"
  /\ aiResult' = parseCodeResponse(modelText, reqBody)
  /\ pc' = "parsed"
  /\ UNCHANGED <<route, calls, thrown, resStatus, resBody, run, firstOutcome>>
  /\ UNCHANGED <<aiConfigured, reqBody, prompt, modelText>>
  /\ UNCHANGED ghVars
  /\ UNCHANGED <<concurrentVars, clientVars>>

CallAgain ==
  /\ pc = "parsed"
  /\ route = "parseCodeResponse"
  /\ run = 1
  /\ run' = 2
  /\ prompt' = buildCodePrompt(reqBody)
  /\ aiResult' = parseCodeResponse(modelText, reqBody)
  /\ UNCHANGED <<route, pc, calls, thrown, resStatus, resBody, firstOutcome>>
  /\ UNCHANGED <<aiConfigured, reqBody, modelText>>
  /\ UNCHANGED ghVars
  /\ UNCHANGED <<concurrentVars, clientVars>>

NextCodeParser ==
  \/ BuildCodePrompt
  \/ ParseCode
  \/ CallAgain

SpecCodeParser ==
  InitCodeParser /\ [][NextCodeParser]_vars

(***************************************************************************)
(* The generation routes: POST /api/generate-summary and                   *)
(* POST /api/generate-code, with AIService behind them.  One request is    *)
(* served, and the same request may be sent a second time.                 *)
(***************************************************************************)
MaxFiles ==
  2

FileOk ==
  FileInput("object", JStr(<<"a",".","t","s">>), JStr(<<"x">>))

FileEmptyContent ==
  FileInput("object", JStr(<<"a",".","t","s">>), JStr(<<>>))

FileNoName ==
  FileInput("object", Undefined, JStr(<<"x">>))

FileNumberContent ==
  FileInput("object", JStr(<<"a",".","t","s">>), JS("number", <<"4","2">>))

FileNull ==
  FileInput("null", Undefined, Undefined)

FilePool ==
  { FileOk, FileEmptyContent, FileNoName, FileNumberContent, FileNull }

\* The bodies of POST /api/generate-summary: files absent, a string, or an
\* array of at most MaxFiles elements.
SummaryRequests ==
  { Request(f, Undefined, Undefined, Undefined, Undefined) :
      f \in { Files("undefined", <<>>), Files("string", <<>>) }
            \cup { Files("array", items) :
                     items \in UNION { [1..n -> FilePool] : n \in 0..MaxFiles } } }

\* The bodies of POST /api/generate-code: each field absent, a string, an
\* empty string or a number.
RouteCodeRequests ==
  { Request(Files("undefined", <<>>), id, text, content, name) :
      id \in { Undefined, SummaryIdS1 },
      text \in { Undefined, SummaryTextT },
      content \in { Undefined, JStr(<<>>), JStr(<<"x">>),
                    JStr(<<"R","e","a","c","t">>), JS("number", <<"4","2">>) },
      name \in { Undefined, JStr(<<"a","p","p",".","t","s">>),
                 JStr(<<"v","i","e","w",".","j","s","x">>),
                 JStr(<<"m","a","i","n",".","p","y">>), JS("number", <<"5">>) } }

\* The message of the Error generateTestSummaries and generateTestCode throw
\* when the service is not configured.
NotConfiguredMessage ==
  <<"AI", "service", "not", "configured.", "Please", "set", "GEMINI_API_KEY",
    "in", "environment", "variables.">>

\* The messages of the TypeErrors of the handlers and the prompt builders.
TypeErrorOfNullFile ==
  <<"Cannot", "read", "properties", "of", "null">>

TypeErrorOfUndefinedBody ==
  <<"Cannot", "read", "properties", "of", "undefined">>

TypeErrorNotAFunction ==
  <<"is", "not", "a", "function">>

\* The messages a failed model call can carry.
ModelFailures ==
  { <<"fetch", "failed">>, <<"429", "Too", "Many", "Requests">> }

\* The answer of a handler that does not reach the model: status, error,
\* message and the messages of the errors thrown on the way.
Answer(status, error, message, errors) ==
  [status |-> status, error |-> error, message |-> message, errors |-> errors]

Proceeds ==
  Answer(0, "", <<>>, <<>>)

\* buildPrompt: file.content.slice throws on a content that is no string.
SummaryPromptThrows(items) ==
  \E i \in 1..Len(items) : items[i].content.type # "string"

\* The validation of the generate-summary handler; the for loop stops at
\* the first element it rejects, and reading a field of null throws.
ValidateSummary(body) ==
  LET items == body.files.items
      Bad == { i \in 1..Len(items) :
                 \/ items[i].type = "null"
                 \/ ~Truthy(items[i].filename)
                 \/ ~Truthy(items[i].content) }
      first == CHOOSE i \in Bad : \A j \in Bad : i <= j
  IN  IF body.files.type # "array"
      THEN Answer(400, "Invalid request format",
                  <<"Request", "body", "must", "contain", "a", "files", "array">>, <<>>)
      ELSE IF Len(items) = 0
      THEN Answer(400, "No files provided",
                  <<"At", "least", "one", "file", "must", "be", "provided">>, <<>>)
      ELSE IF Bad = {} THEN Proceeds
      ELSE IF items[first].type = "null"
      THEN Answer(500, "Failed to generate test summaries", TypeErrorOfNullFile,
                  <<TypeErrorOfNullFile>>)
      ELSE Answer(400, "Invalid file format",
                  <<"Each", "file", "must", "have", "filename", "and", "content">>, <<>>)

\* The validation of the generate-code handler.
ValidateCode(body) ==
  IF ~Truthy(body.summaryId) \/ ~Truthy(body.summaryText) \/ ~Truthy(body.fileContent)
  THEN Answer(400, "Invalid request format",
              <<"Request", "body", "must", "contain", "summaryId,", "summaryText,",
                "and", "fileContent">>, <<>>)
  ELSE Proceeds

\* Variant of BeforeModel: the configuration is not checked.
BeforeModel_Unchecked(rt, body) ==
  LET failed == IF rt = "generate-summary" THEN "Failed to generate test summaries"
                ELSE "Failed to generate test code"
      throws == IF rt = "generate-summary" THEN SummaryPromptThrows(body.files.items)
                ELSE CodePromptThrows(body)
  IN  IF throws
      THEN Answer(500, failed, TypeErrorNotAFunction, <<TypeErrorNotAFunction>>)
      ELSE Proceeds

\* generateTestSummaries / generateTestCode up to the model call: the
\* configuration check, then the prompt builder.
BeforeModel(rt, body) ==
  LET failed == IF rt = "generate-summary" THEN "Failed to generate test summaries"
                ELSE "Failed to generate test code"
      throws == IF rt = "generate-summary" THEN SummaryPromptThrows(body.files.items)
                ELSE CodePromptThrows(body)
  IN  IF ~aiConfigured
      THEN Answer(500, failed, NotConfiguredMessage, <<NotConfiguredMessage>>)
      ELSE IF throws
      THEN Answer(500, failed, TypeErrorNotAFunction, <<TypeErrorNotAFunction>>)
      ELSE Proceeds

InitAI ==
  /\ GHIdle
  /\ route = "none"
  /\ pc = "idle"
  /\ calls = <<>>
  /\ thrown = <<>>
  /\ resStatus = 0
  /\ resBody = NoBody
  /\ run = 0
  /\ firstOutcome = Outcome(0, NoResult)
  /\ aiConfigured \in BOOLEAN
  /\ reqBody = NoRequest
  /\ prompt = NoPrompt
  /\ modelText = <<>>
  /\ aiResult = NoResult
  /\ NoneInFlight
  /\ ClientIdle

\* A handler from the arrival of the request to its answer or to the model
\* call it awaits.
Serve(rt, body) ==
  LET service == IF rt = "generate-summary" THEN "generateTestSummaries"
                 ELSE "generateTestCode"
      checked == IF rt = "generate-summary" THEN ValidateSummary(body)
                 ELSE ValidateCode(body)
      before == BeforeModel(rt, body)
      answer == IF checked # Proceeds THEN checked ELSE before
  IN  /\ route' = rt
      /\ reqBody' = body
      /\ modelText' = <<>>
      /\ aiResult' = NoResult
      /\ IF answer # Proceeds
         THEN /\ calls' = IF checked # Proceeds THEN <<>> ELSE <<service>>
              /\ thrown' = answer.errors
              /\ resStatus' = answer.status
              /\ resBody' = Body(FALSE, answer.error, answer.message, <<>>, 0, <<>>)
              /\ prompt' = NoPrompt
              /\ pc' = "done"
         ELSE /\ calls' = <<service, "generateContent">>
              /\ thrown' = <<>>
              /\ resStatus' = 0
              /\ resBody' = NoBody
              /\ prompt' = IF rt = "generate-summary" THEN buildPrompt(body.files.items)
                           ELSE buildCodePrompt(body)
              /\ pc' = "awaitModel"

PostGenerateSummary ==
  /\ pc = "idle"
  /\ \E body \in SummaryRequests : Serve("generate-summary", body)
  /\ run' = 1
  /\ UNCHANGED <<firstOutcome, aiConfigured>>
  /\ UNCHANGED ghVars
  /\ UNCHANGED <<concurrentVars, clientVars>>

PostGenerateCode ==
  /\ pc = "idle"
  /\ \E body \in RouteCodeRequests : Serve("generate-code", body)
  /\ run' = 1
  /\ UNCHANGED <<firstOutcome, aiConfigured>>
  /\ UNCHANGED ghVars
  /\ UNCHANGED <<concurrentVars, clientVars>>

\* A request without any body.  express.json() leaves req.body as an empty
\* object or as undefined, depending on the version of Express in use; with
\* undefined the first read of a field throws inside the try block.
PostWithoutBody ==
  /\ pc = "idle"
  /\ \E rt \in {"generate-summary", "generate-code"} :
       \/ Serve(rt, NoRequest)
       \/ /\ route' = rt
          /\ reqBody' = NoRequest
          /\ calls' = <<>>
          /\ thrown' = <<TypeErrorOfUndefinedBody>>
          /\ resStatus' = 500
          /\ resBody' = Body(FALSE,
                             IF rt = "generate-summary"
                             THEN "Failed to generate test summaries"
                             ELSE "Failed to generate test code",
                             TypeErrorOfUndefinedBody, <<>>, 0, <<>>)
          /\ pc' = "done"
          /\ UNCHANGED <<prompt, modelText, aiResult>>
  /\ run' = 1
  /\ UNCHANGED <<firstOutcome, aiConfigured>>
  /\ UNCHANGED ghVars
  /\ UNCHANGED <<concurrentVars, clientVars>>

\* The same request is sent again after the first one was answered.
PostAgain ==
  /\ pc = "done"
  /\ route \in {"generate-summary", "generate-code"}
  /\ run = 1
  /\ thrown # <<TypeErrorOfUndefinedBody>>
  /\ run' = 2
  /\ firstOutcome' = Outcome(resStatus, aiResult)
  /\ Serve(route, reqBody)
  /\ UNCHANGED aiConfigured
  /\ UNCHANGED ghVars
  /\ UNCHANGED <<concurrentVars, clientVars>>

\* Variant of SummaryModelReply: total is the number of files analysed.
SummaryModelReply_TotalOfFiles ==
  /\ pc = "awaitModel"
  /\ route = "generate-summary"
  /\ \E text \in NamedSummaryTexts :
       LET summaries == parseAIResponse(text)
       IN  /\ modelText' = text
           /\ aiResult' = Result(summaries, <<>>, "", "", "Google Gemini")
           /\ resBody' = Body(TRUE, "", <<>>, summaries, Len(reqBody.files.items), <<>>)
  /\ resStatus' = 200
  /\ pc' = "done"
  /\ UNCHANGED <<route, calls, thrown, run, firstOutcome, aiConfigured, reqBody, prompt>>
  /\ UNCHANGED ghVars
  /\ UNCHANGED <<concurrentVars, clientVars>>

\* The model answers the summary prompt: the text is parsed and the handler
\* answers with the summaries and their number.
SummaryModelReply ==
  /\ pc = "awaitModel"
  /\ route = "generate-summary"
  /\ \E text \in NamedSummaryTexts :
       LET summaries == parseAIResponse(text)
       IN  /\ modelText' = text
           /\ aiResult' = Result(summaries, <<>>, "", "", "Google Gemini")
           /\ resBody' = Body(TRUE, "", <<>>, summaries, Len(summaries), <<>>)
  /\ resStatus' = 200
  /\ pc' = "done"
  /\ UNCHANGED <<route, calls, thrown, run, firstOutcome, aiConfigured, reqBody, prompt>>
  /\ UNCHANGED ghVars
  /\ UNCHANGED <<concurrentVars, clientVars>>

\* The model answers the code prompt: the text is parsed and the handler
\* answers with the code and its labels.
CodeModelReply ==
  /\ pc = "awaitModel"
  /\ route = "generate-code"
  /\ \E text \in NamedCodeTexts :
       /\ modelText' = text
       /\ aiResult' = [parseCodeResponse(text, reqBody) EXCEPT !.aiProvider = "Google Gemini"]
  /\ resBody' = Body(TRUE, "", <<>>, <<>>, 0, <<>>)
  /\ resStatus' = 200
  /\ pc' = "done"
  /\ UNCHANGED <<route, calls, thrown, run, firstOutcome, aiConfigured, reqBody, prompt>>
  /\ UNCHANGED ghVars
  /\ UNCHANGED <<concurrentVars, clientVars>>

\* Variant of ModelFail: the model is called once more before giving up.
ModelFail_Retrying ==
  /\ pc = "awaitModel"
  /\ \E msg \in ModelFailures :
       /\ thrown' = <<msg>>
       /\ resBody' = Body(FALSE,
                          IF route = "generate-summary"
                          THEN "Failed to generate test summaries"
                          ELSE "Failed to generate test code",
                          msg, <<>>, 0, <<>>)
  /\ calls' = Append(calls, "generateContent")
  /\ resStatus' = 500
  /\ pc' = "done"
  /\ UNCHANGED <<route, run, firstOutcome, aiConfigured, reqBody, prompt,
                 modelText, aiResult>>
  /\ UNCHANGED ghVars
  /\ UNCHANGED <<concurrentVars, clientVars>>

\* The model call fails: the error reaches the catch of the handler.
ModelFail ==
  /\ pc = "awaitModel"
  /\ \E msg \in ModelFailures :
       /\ thrown' = <<msg>>
       /\ resBody' = Body(FALSE,
                          IF route = "generate-summary"
                          THEN "Failed to generate test summaries"
                          ELSE "Failed to generate test code",
                          msg, <<>>, 0, <<>>)
  /\ resStatus' = 500
  /\ pc' = "done"
  /\ UNCHANGED <<route, calls, run, firstOutcome, aiConfigured, reqBody, prompt,
                 modelText, aiResult>>
  /\ UNCHANGED ghVars
  /\ UNCHANGED <<concurrentVars, clientVars>>

NextAI ==
  \/ PostGenerateSummary
  \/ PostGenerateCode
  \/ PostWithoutBody
  \/ PostAgain
  \/ SummaryModelReply
  \/ CodeModelReply
  \/ ModelFail

SpecAI ==
  InitAI /\ [][NextAI]_vars

(***************************************************************************)
(* The prompt builders alone, on contents whose length is near 0 and near  *)
(* the two limits.                                                         *)
(***************************************************************************)
MaxOver ==
  2

\* A content of n characters; the characters differ by position and fill.
ContentOfLength(n, fill) ==
  [i \in 1..n |-> IF i % 3 = 0 THEN fill ELSE IF i % 3 = 1 THEN "a" ELSE "b"]

NearLimitLengths ==
  (0..MaxOver)
    \cup ((SummaryContentLimit - MaxOver)..(SummaryContentLimit + MaxOver))
    \cup ((CodeContentLimit - MaxOver)..(CodeContentLimit + MaxOver))

LongContents ==
  { JStr(ContentOfLength(n, fill)) : n \in NearLimitLengths, fill \in {"c", "R"} }

\* The files of a summary request: one file, or a short file before it.
PromptSummaryRequests ==
  { Request(Files("array", items), Undefined, Undefined, Undefined, Undefined) :
      items \in { <<FileInput("object", JStr(<<"a",".","t","s">>), c)>> : c \in LongContents }
                \cup { <<FileOk, FileInput("object", JStr(<<"a",".","t","s">>), c)>> :
                         c \in LongContents } }

PromptCodeRequests ==
  { Request(Files("undefined", <<>>), SummaryIdS1, SummaryTextT, c, n) :
      c \in LongContents,
      n \in { Undefined, JStr(<<"a","p","p",".","t","s">>) } }

InitPrompt ==
  /\ GHIdle
  /\ pc = "build"
  /\ calls = <<>>
  /\ thrown = <<>>
  /\ resStatus = 0
  /\ resBody = NoBody
  /\ run = 1
  /\ firstOutcome = Outcome(0, NoBody)
  /\ aiConfigured = TRUE
  /\ \/ route = "buildPrompt" /\ reqBody \in PromptSummaryRequests
     \/ route = "buildCodePrompt" /\ reqBody \in PromptCodeRequests
  /\ prompt = NoPrompt
  /\ modelText = <<>>
  /\ aiResult = NoResult
  /\ NoneInFlight
  /\ ClientIdle

BuildSummaryPrompt ==
  /\ pc = "build"
  /\ route = "buildPrompt"
  /\ prompt' = buildPrompt(reqBody.files.items)
  /\ pc' = "built"
  /\ UNCHANGED <<route, calls, thrown, resStatus, resBody, run, firstOutcome>>
  /\ UNCHANGED <<aiConfigured, reqBody, modelText, aiResult>>
  /\ UNCHANGED ghVars
  /\ UNCHANGED <<concurrentVars, clientVars>>

BuildLongCodePrompt ==
  /\ pc = "build"
  /\ route = "buildCodePrompt"
  /\ prompt' = buildCodePrompt(reqBody)
  /\ pc' = "built"
  /\ UNCHANGED <<route, calls, thrown, resStatus, resBody, run, firstOutcome>>
  /\ UNCHANGED <<aiConfigured, reqBody, modelText, aiResult>>
  /\ UNCHANGED ghVars
  /\ UNCHANGED <<concurrentVars, clientVars>>

NextPrompt ==
  \/ BuildSummaryPrompt
  \/ BuildLongCodePrompt

SpecPrompt ==
  InitPrompt /\ [][NextPrompt]_vars

(***************************************************************************)
(* The whole server: one request to any of its four routes.                *)
(***************************************************************************)
InitServer ==
  /\ githubService \in {"GitHubService", "null"}
  /\ owner = ""
  /\ repo = ""
  /\ defaultBranch = ""
  /\ tree = <<>>
  /\ codeFiles = <<>>
  /\ hostReplies = [repo |-> NoReply, tree |-> NoReply]
  /\ route = "none"
  /\ pc = "idle"
  /\ calls = <<>>
  /\ thrown = <<>>
  /\ resStatus = 0
  /\ resBody = NoBody
  /\ run = 0
  /\ firstOutcome = Outcome(0, NoBody)
  /\ aiConfigured \in BOOLEAN
  /\ reqBody = NoRequest
  /\ prompt = NoPrompt
  /\ modelText = <<>>
  /\ aiResult = NoResult
  /\ NoneInFlight
  /\ ClientIdle

NextServer ==
  \/ Next
  \/ NextAI

SpecServer ==
  InitServer /\ [][NextServer]_vars

(***************************************************************************)
(* Several requests served at once.  Node runs a handler from the arrival  *)
(* of its request, or from the reply it awaits, to its next await or to    *)
(* its response; handlers of different requests interleave at the awaits.  *)
(* A handler keeps req, res and the consts of the adapter in its own       *)
(* locals; githubService and aiService are the only module-level state.    *)
(***************************************************************************)
MaxInflight ==
  2

\* The locals of one handler.
Handler(rt, o, r, body, at, branch, issued, got, status, answer) ==
  [route |-> rt, owner |-> o, repo |-> r, body |-> body, pc |-> at,
   defaultBranch |-> branch, calls |-> issued, replies |-> got,
   status |-> status, resBody |-> answer]

IdleHandler ==
  Handler("none", "", "", NoRequest, "idle", "", <<>>, <<>>, 0, NoBody)

\* What an external call resolves or rejects with: the data of the hosting
\* API, or the text of the model (the message of its failure when ok is
\* FALSE).
External(ok, branch, t, list, text, err) ==
  [ok |-> ok, branch |-> branch, tree |-> t, repos |-> list, text |-> text,
   err |-> err]

\* A handler from the arrival of its request to its first await or to its
\* response.
Begin(rt, o, r, body) ==
  LET h == Handler(rt, o, r, body, "done", "", <<>>, <<>>, 0, NoBody)
      checked == ValidateSummary(body)
      before == BeforeModel(rt, body)
      answer == IF checked # Proceeds THEN checked ELSE before
  IN  IF rt \in {"repos", "files"}
      THEN IF githubService = "null"
           THEN [h EXCEPT !.status = 503, !.resBody = NotConfiguredBody]
           ELSE IF rt = "repos"
           THEN [h EXCEPT !.pc = "awaitRepos", !.calls = << <<"GET /user/repos">> >>]
           ELSE IF o = "" \/ r = ""
           THEN [h EXCEPT !.status = 400,
                          !.resBody = Body(FALSE, "Missing required parameters",
                                           <<"Both", "owner", "and", "repo", "parameters",
                                             "are", "required">>, <<>>, 0, <<>>)]
           ELSE [h EXCEPT !.pc = "awaitRepo",
                          !.calls = << <<"GET /repos/:owner/:repo", o, r>> >>]
      ELSE IF answer # Proceeds
           THEN [h EXCEPT !.status = answer.status,
                          !.resBody = Body(FALSE, answer.error, answer.message, <<>>, 0, <<>>),
                          !.calls = IF checked # Proceeds THEN <<>>
                                    ELSE << <<"generateTestSummaries">> >>]
           ELSE [h EXCEPT !.pc = "awaitModel",
                          !.calls = << <<"generateTestSummaries">>, <<"generateContent">> >>]

\* A handler from the reply it awaited to its next await or to its response.
Resume(h, reply) ==
  LET got == [h EXCEPT !.replies = Append(h.replies, reply), !.pc = "done"]
      FilesFailed(err) ==
        LET msg == ServiceErrorMessage(FilesPrefix, err)
        IN  [got EXCEPT !.status = FilesErrorStatus(msg),
                        !.resBody = Body(FALSE, "Failed to fetch repository files",
                                         msg, <<>>, 0, <<>>)]
  IN  CASE h.pc = "awaitRepos" ->
             IF reply.ok
             THEN [got EXCEPT !.status = 200,
                              !.resBody = Body(TRUE, "", <<>>, reply.repos,
                                               Len(reply.repos), <<>>)]
             ELSE [got EXCEPT !.status = 500,
                              !.resBody = Body(FALSE, "Failed to fetch repositories",
                                               ServiceErrorMessage(ReposPrefix, reply.err),
                                               <<>>, 0, <<>>)]
        [] h.pc = "awaitRepo" ->
             IF reply.ok
             THEN LET branch == IF reply.branch = "" THEN "main" ELSE reply.branch
                  IN  [got EXCEPT !.pc = "awaitTree",
                                  !.defaultBranch = branch,
                                  !.calls = Append(h.calls,
                                              <<"GET /repos/:owner/:repo/git/trees/:branch",
                                                h.owner, h.repo, branch>>)]
             ELSE FilesFailed(reply.err)
        [] h.pc = "awaitTree" ->
             IF reply.ok
             THEN LET c == ClassifyTree(reply.tree, h.owner, h.repo, h.defaultBranch)
                  IN  IF c.threw THEN FilesFailed(TypeErrorOfUndefinedPath)
                      ELSE [got EXCEPT !.status = 200,
                                       !.resBody = Body(TRUE, "", <<>>, c.files, Len(c.files),
                                                        <<h.owner, "/", h.repo>>)]
             ELSE FilesFailed(reply.err)
        [] h.pc = "awaitModel" ->
             IF reply.ok
             THEN LET summaries == parseAIResponse(reply.text)
                  IN  [got EXCEPT !.status = 200,
                                  !.resBody = Body(TRUE, "", <<>>, summaries,
                                                   Len(summaries), <<>>)]
             ELSE [got EXCEPT !.status = 500,
                              !.resBody = Body(FALSE, "Failed to generate test summaries",
                                               reply.text, <<>>, 0, <<>>)]

\* The request served alone: the handler is run from its arrival through the
\* replies got, with no other handler in between.
RECURSIVE ResumeAll(_, _)
ResumeAll(h, got) ==
  IF got = <<>> THEN h ELSE ResumeAll(Resume(h, Head(got)), Tail(got))

RunAlone(h) ==
  ResumeAll(Begin(h.route, h.owner, h.repo, h.body), h.replies)

(***************************************************************************)
(* Inputs of the concurrent runs.                                          *)
(***************************************************************************)
\* One batch the validation accepts and one it rejects.
ConcurrentBatches ==
  { Request(Files("array", <<FileOk>>), Undefined, Undefined, Undefined, Undefined),
    Request(Files("array", <<FileOk, FileNoName>>), Undefined, Undefined, Undefined,
            Undefined) }

ConcurrentFailures ==
  { Err(TRUE, StatusCode404Message, TRUE, <<"Not", "Found">>),
    Err(TRUE, <<"Network", "Error">>, FALSE, <<>>) }

\* A tree with one code file, and one whose entry has no path.
ConcurrentTrees ==
  { << Item("blob", TRUE, PathSrcAppTs, TRUE, 120, "sha1") >>,
    << Item("blob", TRUE, PathMainPy, TRUE, 0, "sha4"),
       Item("blob", FALSE, <<>>, TRUE, 3, "sha6") >> }

\* What the call a handler awaits can be answered with.
ExternalReplies(at) ==
  CASE at = "awaitRepos" ->
         { External(TRUE, "", <<>>, list, <<>>, NoErr) :
             list \in { <<>>, <<"widgets", "gadgets">> } }
           \cup { External(FALSE, "", <<>>, <<>>, <<>>, err) : err \in ConcurrentFailures }
    [] at = "awaitRepo" ->
         { External(TRUE, b, <<>>, <<>>, <<>>, NoErr) : b \in BranchReplies }
           \cup { External(FALSE, "", <<>>, <<>>, <<>>, err) : err \in ConcurrentFailures }
    [] at = "awaitTree" ->
         { External(TRUE, "", t, <<>>, <<>>, NoErr) : t \in ConcurrentTrees }
           \cup { External(FALSE, "", <<>>, <<>>, <<>>, err) : err \in ConcurrentFailures }
    [] at = "awaitModel" ->
         { External(TRUE, "", <<>>, <<>>, text, NoErr) :
             text \in { TextRepeatedId, TextNotJson } }
           \cup { External(FALSE, "", <<>>, <<>>, <<"fetch", "failed">>, NoErr) }

(***************************************************************************)
(* The server with MaxInflight requests in flight.                         *)
(***************************************************************************)
InitConcurrent ==
  /\ githubService \in {"GitHubService", "null"}
  /\ aiConfigured \in BOOLEAN
  /\ inflight = [i \in 1..MaxInflight |-> IdleHandler]
  /\ owner = ""
  /\ repo = ""
  /\ defaultBranch = ""
  /\ tree = <<>>
  /\ codeFiles = <<>>
  /\ hostReplies = [repo |-> NoReply, tree |-> NoReply]
  /\ route = "none"
  /\ pc = "idle"
  /\ calls = <<>>
  /\ thrown = <<>>
  /\ resStatus = 0
  /\ resBody = NoBody
  /\ run = 0
  /\ firstOutcome = Outcome(0, NoBody)
  /\ reqBody = NoRequest
  /\ prompt = NoPrompt
  /\ modelText = <<>>
  /\ aiResult = NoResult
  /\ ClientIdle

\* A request arrives while others may be in flight: its handler runs to its
\* first await or to its response.
RequestArrives(i) ==
  /\ inflight[i].pc = "idle"
  /\ \E rt \in {"repos", "files", "generate-summary"} :
       \E o \in Owners, r \in RepoNames, body \in ConcurrentBatches :
         inflight' = [inflight EXCEPT ![i] =
                        Begin(rt,
                              IF rt = "files" THEN o ELSE "",
                              IF rt = "files" THEN r ELSE "",
                              IF rt = "generate-summary" THEN body ELSE NoRequest)]
  /\ UNCHANGED <<githubService, route, pc, owner, repo, defaultBranch, tree,
                 codeFiles, calls, thrown, resStatus, resBody, run, hostReplies,
                 firstOutcome>>
  /\ UNCHANGED aiVars
  /\ UNCHANGED clientVars

\* Variant of ExternalAnswers: owner and repo are read from the request that
\* arrived last, as if the handlers kept them at module level.
ExternalAnswers_SharedParams(i) ==
  /\ inflight[i].pc \in {"awaitRepos", "awaitRepo", "awaitTree", "awaitModel"}
  /\ \E reply \in ExternalReplies(inflight[i].pc) :
       LET h == inflight[i]
           others == { j \in DOMAIN inflight : j # i /\ inflight[j].route = "files" }
           last == CHOOSE j \in others : \A k \in others : k <= j
           shared == IF others = {} THEN h
                     ELSE [h EXCEPT !.owner = inflight[last].owner,
                                    !.repo = inflight[last].repo]
       IN  inflight' = [inflight EXCEPT ![i] =
                          [Resume(shared, reply) EXCEPT !.owner = h.owner,
                                                        !.repo = h.repo]]
  /\ UNCHANGED <<githubService, route, pc, owner, repo, defaultBranch, tree,
                 codeFiles, calls, thrown, resStatus, resBody, run, hostReplies,
                 firstOutcome>>
  /\ UNCHANGED aiVars
  /\ UNCHANGED clientVars

\* The call a handler awaits is answered: that handler resumes.
ExternalAnswers(i) ==
  /\ inflight[i].pc \in {"awaitRepos", "awaitRepo", "awaitTree", "awaitModel"}
  /\ \E reply \in ExternalReplies(inflight[i].pc) :
       inflight' = [inflight EXCEPT ![i] = Resume(inflight[i], reply)]
  /\ UNCHANGED <<githubService, route, pc, owner, repo, defaultBranch, tree,
                 codeFiles, calls, thrown, resStatus, resBody, run, hostReplies,
                 firstOutcome>>
  /\ UNCHANGED aiVars
  /\ UNCHANGED clientVars

NextConcurrent ==
  \/ \E i \in 1..MaxInflight : RequestArrives(i)
  \/ \E i \in 1..MaxInflight : ExternalAnswers(i)

SpecConcurrent ==
  InitConcurrent /\ [][NextConcurrent]_vars

(***************************************************************************)
(* The client: App.  The user selects and clears the repository, the       *)
(* useEffect on selectedRepo calls fetchRepositoryFiles, whose awaited     *)
(* responses arrive in any order; the user toggles the files shown and     *)
(* clears the selection.                                                   *)
(***************************************************************************)
MaxFetches ==
  3

\* A CodeFile of a response: its path, and the repository its download_url
\* names.
ClientFile(path, of) ==
  [path |-> path, repo |-> of]

\* response.files of GET /api/repos/:owner/:repo/files, by repository.
Listings(of) ==
  IF of = "widgets"
  THEN { <<>>,
         <<ClientFile("src/app.ts", of)>>,
         <<ClientFile("src/app.ts", of), ClientFile("src/widget.ts", of)>> }
  ELSE { <<ClientFile("src/gadget.ts", of)>>,
         <<ClientFile("src/app.ts", of), ClientFile("src/gadget.ts", of)>> }

ClientPaths ==
  {"src/app.ts", "src/widget.ts", "src/gadget.ts"}

PathsOf(list) ==
  { list[i].path : i \in 1..Len(list) }

\* The updater of handleFileToggle.
Toggle(prev, path) ==
  IF path \in prev THEN prev \ {path} ELSE prev \cup {path}

\* selectedFilesList of SelectedFilesPanel: what is sent for summary
\* generation.
selectedFilesList ==
  SelectSeq(repoFiles, LAMBDA file : file.path \in selectedFiles)

RemoveAt(s, i) ==
  SubSeq(s, 1, i - 1) \o SubSeq(s, i + 1, Len(s))

InitApp ==
  /\ GHIdle
  /\ AIIdle
  /\ route = "none"
  /\ pc = "idle"
  /\ calls = <<>>
  /\ thrown = <<>>
  /\ resStatus = 0
  /\ resBody = NoBody
  /\ run = 0
  /\ firstOutcome = Outcome(0, NoBody)
  /\ NoneInFlight
  /\ ClientIdle

\* fetchRepositoryFiles up to its await.
fetchRepositoryFiles(of) ==
  /\ loading' = TRUE
  /\ repoFiles' = <<>>
  /\ selectedFiles' = {}
  /\ fileRequests' = Append(fileRequests, of)

\* onRepoSelect(repo) with a repository other than the selected one, and the
\* effect it triggers.
SelectRepo ==
  /\ Len(fileRequests) < MaxFetches
  /\ \E of \in RepoNames :
       /\ of # selectedRepo
       /\ selectedRepo' = of
       /\ fetchRepositoryFiles(of)
  /\ UNCHANGED summariesVars
  /\ UNCHANGED <<concurrentVars, aiVars, ghVars>>
  /\ UNCHANGED <<route, pc, calls, thrown, resStatus, resBody, run, firstOutcome>>

\* onRepoSelect(null), and the else branch of the effect.
ClearRepo ==
  /\ selectedRepo # "null"
  /\ selectedRepo' = "null"
  /\ repoFiles' = <<>>
  /\ selectedFiles' = {}
  /\ UNCHANGED <<loading, fileRequests>>
  /\ UNCHANGED summariesVars
  /\ UNCHANGED <<concurrentVars, aiVars, ghVars>>
  /\ UNCHANGED <<route, pc, calls, thrown, resStatus, resBody, run, firstOutcome>>

\* An awaited getRepositoryFiles settles, whichever was issued first: the
\* files of a successful response are shown, a failure sets the error, and
\* the finally block ends the loading.
FilesResponse ==
  /\ \E i \in 1..Len(fileRequests) :
       /\ fileRequests' = RemoveAt(fileRequests, i)
       /\ \/ \E list \in Listings(fileRequests[i]) : repoFiles' = list
          \/ UNCHANGED repoFiles
  /\ loading' = FALSE
  /\ UNCHANGED <<selectedRepo, selectedFiles>>
  /\ UNCHANGED summariesVars
  /\ UNCHANGED <<concurrentVars, aiVars, ghVars>>
  /\ UNCHANGED <<route, pc, calls, thrown, resStatus, resBody, run, firstOutcome>>

\* handleFileToggle, from a row of FileList (shown when a repository is
\* selected and nothing is loading) or from a row of SelectedFilesPanel
\* (the selected files that are in the list).
ToggleFile ==
  /\ \E path \in PathsOf(repoFiles) :
       /\ \/ selectedRepo # "null" /\ ~loading
          \/ path \in selectedFiles
       /\ selectedFiles' = Toggle(selectedFiles, path)
  /\ UNCHANGED <<selectedRepo, repoFiles, loading, fileRequests>>
  /\ UNCHANGED summariesVars
  /\ UNCHANGED <<concurrentVars, aiVars, ghVars>>
  /\ UNCHANGED <<route, pc, calls, thrown, resStatus, resBody, run, firstOutcome>>

\* handleClearAllFiles, and "Clear all" of FileList, which toggles every
\* selected path.
ClearAllFiles ==
  /\ selectedFiles # {}
  /\ selectedFiles' = {}
  /\ UNCHANGED <<selectedRepo, repoFiles, loading, fileRequests>>
  /\ UNCHANGED summariesVars
  /\ UNCHANGED <<concurrentVars, aiVars, ghVars>>
  /\ UNCHANGED <<route, pc, calls, thrown, resStatus, resBody, run, firstOutcome>>

NextApp ==
  \/ SelectRepo
  \/ ClearRepo
  \/ FilesResponse
  \/ ToggleFile
  \/ ClearAllFiles

SpecApp ==
  InitApp /\ [][NextApp]_vars

(***************************************************************************)
(* The client: TestSummaries.  For each summary shown the user starts a    *)
(* code generation, whose awaited response arrives later, and clears the   *)
(* code or the error shown for it.                                         *)
(***************************************************************************)
\* The summaryIds of the summaries shown.
SummaryIds ==
  {"summary-1", "summary-2", "summary-3"}

\* What handleApiError and the throw statements give as error message.
CodeErrorMessages ==
  {"Failed to generate test code", "Network Error"}

NoFileContentMessage ==
  "No file content available for code generation"

\* new Map(prev.set(key, value))
MapSet(map, key, value) ==
  [k \in DOMAIN map \cup {key} |-> IF k = key THEN value ELSE map[k]]

\* newMap.delete(key)
MapDelete(map, key) ==
  [k \in DOMAIN map \ {key} |-> map[k]]

\* The summaryIds with a request in flight.
InFlightIds ==
  { codeRequests[i] : i \in 1..Len(codeRequests) }

InitSummaries ==
  /\ GHIdle
  /\ AIIdle
  /\ route = "none"
  /\ pc = "idle"
  /\ calls = <<>>
  /\ thrown = <<>>
  /\ resStatus = 0
  /\ resBody = NoBody
  /\ run = 0
  /\ firstOutcome = Outcome(0, NoBody)
  /\ NoneInFlight
  /\ ClientIdle

\* generateTestCode up to its await, started by the "Generate Code" button
\* of a summary, which is disabled while the summaryId is in loadingCode.
StartGeneration(id) ==
  /\ id \notin loadingCode
  /\ codeErrors' = MapDelete(codeErrors, id)
  /\ loadingCode' = loadingCode \cup {id}
  /\ codeRequests' = Append(codeRequests, id)
  /\ UNCHANGED generatedCodes
  /\ UNCHANGED appVars
  /\ UNCHANGED <<concurrentVars, aiVars, ghVars>>
  /\ UNCHANGED <<route, pc, calls, thrown, resStatus, resBody, run, firstOutcome>>

\* generateTestCode with an empty selectedFiles: it throws before any
\* request, and catch and finally run in the same call.
GenerationWithoutFiles(id) ==
  /\ id \notin loadingCode
  /\ codeErrors' = MapSet(codeErrors, id, NoFileContentMessage)
  /\ loadingCode' = loadingCode \ {id}
  /\ UNCHANGED <<generatedCodes, codeRequests>>
  /\ UNCHANGED appVars
  /\ UNCHANGED <<concurrentVars, aiVars, ghVars>>
  /\ UNCHANGED <<route, pc, calls, thrown, resStatus, resBody, run, firstOutcome>>

\* The finally block of generateTestCode.
Finally(id) ==
  loadingCode' = loadingCode \ {id}

\* The awaited generateTestCode of a summary settles with success: the code
\* is stored.
GenerationSucceeds(id) ==
  /\ \E i \in 1..Len(codeRequests) :
       /\ codeRequests[i] = id
       /\ codeRequests' = RemoveAt(codeRequests, i)
  /\ generatedCodes' = MapSet(generatedCodes, id, "code")
  /\ Finally(id)
  /\ UNCHANGED codeErrors
  /\ UNCHANGED appVars
  /\ UNCHANGED <<concurrentVars, aiVars, ghVars>>
  /\ UNCHANGED <<route, pc, calls, thrown, resStatus, resBody, run, firstOutcome>>

\* It settles with success false, with an error response or with the
\* timeout of the request: the catch block stores the message.
GenerationFails(id) ==
  /\ \E i \in 1..Len(codeRequests) :
       /\ codeRequests[i] = id
       /\ codeRequests' = RemoveAt(codeRequests, i)
  /\ \E message \in CodeErrorMessages :
       codeErrors' = MapSet(codeErrors, id, message)
  /\ Finally(id)
  /\ UNCHANGED generatedCodes
  /\ UNCHANGED appVars
  /\ UNCHANGED <<concurrentVars, aiVars, ghVars>>
  /\ UNCHANGED <<route, pc, calls, thrown, resStatus, resBody, run, firstOutcome>>

\* clearGeneratedCode, from the button of the error shown or of the code
\* shown.
clearGeneratedCode(id) ==
  /\ id \in DOMAIN generatedCodes \cup DOMAIN codeErrors
  /\ generatedCodes' = MapDelete(generatedCodes, id)
  /\ codeErrors' = MapDelete(codeErrors, id)
  /\ UNCHANGED <<loadingCode, codeRequests>>
  /\ UNCHANGED appVars
  /\ UNCHANGED <<concurrentVars, aiVars, ghVars>>
  /\ UNCHANGED <<route, pc, calls, thrown, resStatus, resBody, run, firstOutcome>>

NextSummaries ==
  \/ \E id \in SummaryIds : StartGeneration(id)
  \/ \E id \in SummaryIds : GenerationWithoutFiles(id)
  \/ \E id \in SummaryIds : GenerationSucceeds(id)
  \/ \E id \in SummaryIds : GenerationFails(id)
  \/ \E id \in SummaryIds : clearGeneratedCode(id)

\* Every request settles: with a response, or with the timeout api.ts sets.
SpecSummaries ==
  /\ InitSummaries
  /\ [][NextSummaries]_vars
  /\ \A id \in SummaryIds : WF_vars(GenerationSucceeds(id) \/ GenerationFails(id))

(***************************************************************************)
(* The claims.  The reference notions below are written from the           *)
(* specification's words, not from the classifier's code.                  *)
(***************************************************************************)
\* The files route has answered with a file list.
FilesListed ==
  pc = "done" /\ route = "files" /\ resStatus = 200

\* The part of a path after its last "/".
FinalSegment(path) ==
  Substring(path, LastIndexOf(path, "/") + 1)

\* A letter-by-letter case fold that keeps every other character as it is.
FoldCase(s) ==
  [i \in 1..Len(s) |-> IF s[i] \in UpperCase THEN LowerOfUpper(s[i]) ELSE s[i]]

RecognizedExtensions ==
  { Tail(e) : e \in codeExtensions }

\* The final segment has a "." and what follows its last "." is recognized.
HasRecognizedExtension(path) ==
  LET seg == FinalSegment(path)
      dot == LastIndexOf(seg, ".")
  IN  /\ dot >= 0
      /\ FoldCase(Substring(seg, dot + 1)) \in RecognizedExtensions

\* The language the table gives for the extension of a path.
TableLanguage(path) ==
  LET seg == FinalSegment(path)
      ext == <<".">> \o FoldCase(Substring(seg, LastIndexOf(seg, ".") + 1))
  IN  IF ext \in languageMapKeys THEN languageMap[ext] ELSE Null

\* C1: no record is produced for a tree entry whose type is not "blob",
\* whatever its path is.
C1_NoRecordForNonBlob ==
  FilesListed =>
    \A i \in 1..Len(tree) :
      tree[i].type # "blob" =>
        \A k \in 1..Len(resBody.list) : resBody.list[k].sha # tree[i].sha

C1_Witness ==
  /\ FilesListed
  /\ \E i \in 1..Len(tree) : tree[i].type = "tree" /\ tree[i].path = PathLibJs
  /\ Len(resBody.list) >= 1

\* C2: a blob is in the classifier's output if and only if the part of its
\* final path segment after the last "." is a recognized extension, and every
\* record of the output has a recognized extension.
C2_ExtensionGate ==
  (pc = "classified" /\ tree[1].type = "blob") =>
    /\ (codeFiles # <<>>) <=> HasRecognizedExtension(tree[1].path)
    /\ \A k \in 1..Len(codeFiles) : HasRecognizedExtension(codeFiles[k].path)

\* C3: the language of every record is the table's value for the record's
\* extension, null exactly when the table has no entry for it, and every
\* extension of the table is a recognized extension.
C3_LanguageFromTable ==
  /\ languageMapKeys \subseteq codeExtensions
  /\ pc = "classified" =>
       \A k \in 1..Len(codeFiles) :
         /\ codeFiles[k].language = TableLanguage(codeFiles[k].path)
         /\ (codeFiles[k].language = Null) <=>
              (<<".">> \o FoldCase(Substring(FinalSegment(codeFiles[k].path),
                   LastIndexOf(FinalSegment(codeFiles[k].path), ".") + 1))
                 \notin languageMapKeys)

C3_Witness ==
  /\ pc = "classified"
  /\ tree[1].path = PathMainPy
  /\ Len(codeFiles) = 1
  /\ codeFiles[1].language = "Python"

\* C4 as claimed: the blob "config.json" is included with language null.
C4_ConfigJsonNull ==
  (pc = "classified" /\ tree[1].type = "blob" /\ tree[1].path = PathConfigJson) =>
    Len(codeFiles) = 1 /\ codeFiles[1].language = Null

\* C4 as amended: the blob "config.json" is included with language "JSON".
C4_ConfigJsonIsJSON ==
  (pc = "classified" /\ tree[1].type = "blob" /\ tree[1].path = PathConfigJson) =>
    /\ Len(codeFiles) = 1
    /\ codeFiles[1].path = PathConfigJson
    /\ codeFiles[1].language = "JSON"

C4_Witness ==
  /\ pc = "classified"
  /\ tree[1].type = "blob"
  /\ tree[1].path = PathConfigJson
  /\ Len(codeFiles) = 1

\* The positions of the tree whose entries survive the filter.
Surviving(t) ==
  { i \in 1..Len(t) : FilterCallback(t[i]) = "true" }

\* C5: the records are the surviving entries in the order of the tree, one
\* record for each, and none besides.
C5_OrderPreserved ==
  FilesListed =>
    \E f \in [1..Len(resBody.list) -> 1..Len(tree)] :
      /\ \A k, l \in 1..Len(resBody.list) : k < l => f[k] < f[l]
      /\ { f[k] : k \in 1..Len(resBody.list) } = Surviving(tree)
      /\ \A k \in 1..Len(resBody.list) :
           /\ resBody.list[k].sha = tree[f[k]].sha
           /\ resBody.list[k].path = tree[f[k]].path

C5_Witness ==
  /\ FilesListed
  /\ Len(tree) = 3
  /\ Len(resBody.list) = 2
  /\ FilterCallback(tree[2]) = "false"

\* C6: every record carries the path, the sha and the size of its entry, the
\* size being 0 when the entry has none.
C6_FieldsVerbatim ==
  FilesListed =>
    \A k \in 1..Len(resBody.list) :
      \E i \in 1..Len(tree) :
        /\ resBody.list[k].sha = tree[i].sha
        /\ resBody.list[k].path = tree[i].path
        /\ resBody.list[k].size = (IF tree[i].hasSize THEN tree[i].size ELSE 0)

C6_Witness ==
  /\ FilesListed
  /\ \E k \in 1..Len(resBody.list) :
       resBody.list[k].sha = "sha1" /\ resBody.list[k].size = 120
  /\ \E k \in 1..Len(resBody.list) :
       resBody.list[k].sha = "sha7" /\ resBody.list[k].size = 0

Malformed(item) ==
  item.type = "blob" /\ ~item.hasPath

\* C8: a tree with a malformed entry among well-formed ones is answered with
\* the records of the well-formed entries, and the listing does not fail.
C8_MalformedSkipped ==
  (/\ pc = "done"
   /\ route = "files"
   /\ Len(calls) = 2
   /\ hostReplies.tree.ok
   /\ \E i \in 1..Len(hostReplies.tree.tree) : Malformed(hostReplies.tree.tree[i])
   /\ \E j \in 1..Len(hostReplies.tree.tree) :
        FilterCallback(hostReplies.tree.tree[j]) = "true") =>
    /\ resStatus = 200
    /\ thrown = <<>>
    /\ Len(resBody.list) = Cardinality(Surviving(hostReplies.tree.tree))

FilesCalls ==
  <<"GET /repos/:owner/:repo", "GET /repos/:owner/:repo/git/trees/:branch">>

\* C9: the lookup is issued before the tree call and each at most once; the
\* tree is classified only after both; a failed lookup issues no tree call;
\* a failed call ends the invocation with exactly one thrown message.
C9_CallOrderNoRetry ==
  route = "files" =>
    /\ calls = SubSeq(FilesCalls, 1, Len(calls))
    /\ pc = "awaitRepo" => calls = SubSeq(FilesCalls, 1, 1)
    /\ pc = "awaitTree" => calls = FilesCalls
    /\ FilesListed => calls = FilesCalls /\ thrown = <<>>
    /\ (pc = "done" /\ calls # <<>> /\ ~hostReplies.repo.ok) =>
         calls = SubSeq(FilesCalls, 1, 1)
    /\ Len(thrown) <= 1
    /\ (pc = "done" /\ resStatus \in {404, 500}) =>
         /\ Len(thrown) = 1
         /\ Len(thrown[1]) > Len(FilesPrefix)
         /\ resBody.message = thrown[1]

C9_Witness ==
  /\ route = "files"
  /\ pc = "done"
  /\ ~hostReplies.repo.ok
  /\ calls = SubSeq(FilesCalls, 1, 1)
  /\ Len(thrown) = 1

\* The reply that failed in a failed invocation of the files route.
FailedReply ==
  IF hostReplies.repo.ok THEN hostReplies.tree ELSE hostReplies.repo

\* C10: a failure on the files route is answered with 404 exactly when its
\* message contains "Not Found" and with 500 otherwise; a failure on the
\* repos route is answered with 500.
C10_NotFoundStatus ==
  (pc = "done" /\ thrown # <<>>) =>
    /\ route = "files" =>
         /\ resStatus \in {404, 500}
         /\ (resStatus = 404) <=> Includes(resBody.message, <<"Not", "Found">>)
         /\ (~FailedReply.ok /\ FailedReply.err.responseMessage = <<"Not", "Found">>)
              => resStatus = 404
    /\ route = "repos" => resStatus = 500

C10_Witness ==
  /\ pc = "done"
  /\ route = "files"
  /\ thrown # <<>>
  /\ resStatus = 404

\* C11: without the hosting-API credential every request to the two
\* repository routes is answered with 503 and the fixed "GitHub integration
\* not configured" error, no hosting-API call is issued, and whether the
\* service is configured never changes.
C11_Unconfigured503 ==
  /\ [](githubService = "null" =>
         /\ calls = <<>>
         /\ pc \in {"idle", "done"}
         /\ pc = "done" =>
              /\ resStatus = 503
              /\ resBody.success = FALSE
              /\ resBody.error = "GitHub integration not configured")
  /\ [][githubService' = githubService]_vars

C11_Witness ==
  /\ githubService = "null"
  /\ route = "files"
  /\ run = 2
  /\ pc = "done"
  /\ resStatus = 503

\* The summary parser has returned.
SummariesParsed ==
  pc = "parsed" /\ route = "parseAIResponse"

\* The text from the first "[" to the last "]" of the trimmed output is
\* valid JSON.
ContainsParseableArray(text) ==
  /\ HasJsonMatch(Trim(text))
  /\ JSONParse(JsonMatch(Trim(text))).ok

\* The elements of the array the output contains.
ArrayElements(text) ==
  JSONParse(JsonMatch(Trim(text))).items

\* summaryId and summaryText are both present and string-typed.
WellShaped(item) ==
  item.idType = "string" /\ item.textType = "string"

IsSentinel(summaries) ==
  /\ Len(summaries) = 1
  /\ summaries[1].idType = "string"
  /\ summaries[1].id = "parse-error-1"
  /\ summaries[1].textType = "string"

\* C12: for an output that contains no parseable JSON array the summary
\* parser returns exactly one element, the sentinel "parse-error-1".
C12_UnparseableGivesSentinel ==
  (SummariesParsed /\ ~ContainsParseableArray(modelText))
    => IsSentinel(aiResult.summaries)

C12_Witness ==
  /\ SummariesParsed
  /\ modelText = TextNotJson
  /\ IsSentinel(aiResult.summaries)

\* C13: for an output that parses to an array with no well-shaped element,
\* "[]" included, the summary parser returns the sentinel alone, and its
\* result is never empty.
C13_NoValidElementGivesSentinel ==
  SummariesParsed =>
    /\ aiResult.summaries # <<>>
    /\ (/\ ContainsParseableArray(modelText)
        /\ \A i \in 1..Len(ArrayElements(modelText)) :
             ~WellShaped(ArrayElements(modelText)[i]))
         => IsSentinel(aiResult.summaries)

\* C14: for an output that contains an array with a well-shaped element the
\* summary parser returns exactly the well-shaped elements, in their order.
C14_ValidElementsInOrder ==
  (/\ SummariesParsed
   /\ ContainsParseableArray(modelText)
   /\ \E i \in 1..Len(ArrayElements(modelText)) :
        WellShaped(ArrayElements(modelText)[i]))
    => aiResult.summaries = SelectSeq(ArrayElements(modelText), WellShaped)

C14_Witness ==
  /\ SummariesParsed
  /\ modelText = TextNumericIdBetween
  /\ aiResult.summaries = <<ElementValue("A"), ElementValue("B")>>

\* C16: the summary identifiers of one parsed result are pairwise distinct.
C16_DistinctIds ==
  SummariesParsed =>
    \A i, j \in 1..Len(aiResult.summaries) :
      i # j => aiResult.summaries[i].id # aiResult.summaries[j].id

\* The code parser has returned.
CodeParsed ==
  pc = "parsed" /\ route = "parseCodeResponse"

\* The first k tokens of t are a fence-opening line: three backticks, an
\* optional language word, a newline.
IsOpeningLine(t, k) ==
  /\ k \in 2..Len(t)
  /\ t[1] = "FENCE"
  /\ t[k] = "\n"
  /\ \A i \in 2..(k - 1) : t[i] \in WordTokens

\* t ends with a fence-closing marker: a newline, three backticks.
EndsWithClosing(t) ==
  /\ Len(t) >= 2
  /\ t[Len(t) - 1] = "\n"
  /\ t[Len(t)] = "FENCE"

\* C17: the code is the trimmed text without its fence-opening line and,
\* in what follows that line, without its fence-closing marker; the content
\* between them is untouched, and a text without fence markers is returned
\* trimmed.
C17_FenceStripped ==
  CodeParsed =>
    LET t == Trim(modelText)
        code == aiResult.code
    IN  /\ \A k \in 0..Len(t) :
             (IsOpeningLine(t, k) \/ (k = 0 /\ \A j \in 1..Len(t) : ~IsOpeningLine(t, j)))
               => LET rest == SubSeq(t, k + 1, Len(t))
                  IN  code = IF EndsWithClosing(rest)
                             THEN SubSeq(rest, 1, Len(rest) - 2)
                             ELSE rest
        /\ (\A i \in 1..Len(t) : t[i] # "FENCE") => code = t

C17_Witness ==
  /\ CodeParsed
  /\ modelText = TextFencedTypescript
  /\ aiResult.code = <<"CODE">>

\* C18: the labels buildCodePrompt embeds are the labels parseCodeResponse
\* returns for the same request, and a second call gives the same labels.
C18_SameLabels ==
  /\ [](CodeParsed =>
          /\ prompt.built
          /\ prompt.language = aiResult.language
          /\ prompt.framework = aiResult.testFramework)
  /\ [][CodeParsed =>
          /\ aiResult'.language = aiResult.language
          /\ aiResult'.testFramework = aiResult.testFramework
          /\ prompt' = prompt]_vars

C18_Witness ==
  /\ CodeParsed
  /\ run = 2
  /\ reqBody.filename = Undefined
  /\ Includes(reqBody.fileContent.str, ReactMarker)
  /\ prompt.framework = "Jest + React Testing Library"
  /\ aiResult.testFramework = "Jest + React Testing Library"

\* The extension of a file name: the letters after its last ".", in lower
\* case; a name without "." has none.
NameExtension(filename) ==
  IF filename.type # "string" \/ LastIndexOf(filename.str, ".") < 0 THEN <<>>
  ELSE FoldCase(Substring(filename.str, LastIndexOf(filename.str, ".") + 1))

\* The UI-framework marker is found in the source content.
HasMarker(request) ==
  Includes(request.fileContent.str, ReactMarker)

Labels(language, testFramework) ==
  <<language, testFramework>>

\* C19 as stated: Python extension, TypeScript extension with and without
\* the marker in the content, JavaScript file with the marker, and the rest.
C19_LabelTable ==
  CodeParsed =>
    LET ext == NameExtension(reqBody.filename)
    IN  Labels(aiResult.language, aiResult.testFramework) =
          IF ext = <<"p","y">> THEN Labels("Python", "pytest")
          ELSE IF ext \in {<<"t","s">>, <<"t","s","x">>}
          THEN Labels("TypeScript",
                      IF HasMarker(reqBody) THEN "Jest + React Testing Library"
                      ELSE "Jest")
          ELSE IF ext \in {<<"j","s">>, <<"j","s","x">>} /\ HasMarker(reqBody)
          THEN Labels("JavaScript", "Jest + React Testing Library")
          ELSE Labels("JavaScript", "Jest")

\* The lower-cased text after the last "." of the file name, the whole
\* lower-cased name when it has no ".", and nothing for an absent name.
LastDotPart(filename) ==
  IF filename.type # "string" THEN <<>>
  ELSE FoldCase(Substring(filename.str, LastIndexOf(filename.str, ".") + 1))

\* C19, amended: py gives Python with pytest; ts and tsx give TypeScript,
\* every other name JavaScript; the UI-test framework is given when the
\* marker is in the content or the extension is tsx (TypeScript) or jsx
\* (JavaScript), and "Jest" otherwise.
C19_LabelTableAmended ==
  CodeParsed =>
    LET ext == LastDotPart(reqBody.filename)
    IN  Labels(aiResult.language, aiResult.testFramework) =
          IF ext = <<"p","y">> THEN Labels("Python", "pytest")
          ELSE IF ext \in {<<"t","s">>, <<"t","s","x">>}
          THEN Labels("TypeScript",
                      IF HasMarker(reqBody) \/ ext = <<"t","s","x">>
                      THEN "Jest + React Testing Library"
                      ELSE "Jest")
          ELSE Labels("JavaScript",
                      IF HasMarker(reqBody) \/ ext = <<"j","s","x">>
                      THEN "Jest + React Testing Library"
                      ELSE "Jest")

C19_Witness ==
  /\ CodeParsed
  /\ reqBody.filename = JStr(<<"A","p","p",".","t","s","x">>)
  /\ ~HasMarker(reqBody)
  /\ aiResult.language = "TypeScript"
  /\ aiResult.testFramework = "Jest + React Testing Library"

\* A generation route has answered.
GenerationAnswered ==
  pc = "done" /\ route \in {"generate-summary", "generate-code"}

\* The handler has called generateTestSummaries or generateTestCode.
ServiceCalled ==
  calls # <<>>

\* The model was called and its call failed.
ModelCallFailed ==
  /\ Len(calls) = 2
  /\ thrown # <<>>
  /\ thrown[Len(thrown)] \in ModelFailures

\* The answer carries a structurally valid result.
ValidResult ==
  /\ resStatus = 200
  /\ resBody.success
  /\ route = "generate-summary" =>
       \A i \in 1..Len(aiResult.summaries) : WellShaped(aiResult.summaries[i])
  /\ route = "generate-code" =>
       /\ aiResult.language \in {"JavaScript", "TypeScript", "Python"}
       /\ aiResult.testFramework \in {"Jest", "Jest + React Testing Library", "pytest"}

\* C15: parsing never raises, so once the model has answered the route
\* answers with a valid result, and a call of generateTestSummaries or
\* generateTestCode fails only for missing configuration or a failed model
\* call.
C15_OnlyConfigOrModelFailures ==
  (GenerationAnswered /\ ServiceCalled) =>
    \/ ValidResult
    \/ /\ resStatus = 500
       /\ ~aiConfigured \/ ModelCallFailed

\* C20: a second run of the same request returns the language and the
\* testFramework of the first run, whatever the two model outputs are.
C20_LabelsFromRequestOnly ==
  (/\ GenerationAnswered
   /\ route = "generate-code"
   /\ run = 2
   /\ resStatus = 200
   /\ firstOutcome.status = 200)
    => /\ aiResult.language = firstOutcome.body.language
       /\ aiResult.testFramework = firstOutcome.body.testFramework

C20_Witness ==
  /\ GenerationAnswered
  /\ route = "generate-code"
  /\ run = 2
  /\ resStatus = 200
  /\ firstOutcome.status = 200
  /\ firstOutcome.body.code # aiResult.code
  /\ reqBody.filename = JStr(<<"v","i","e","w",".","j","s","x">>)
  /\ aiResult.language = "JavaScript"

\* A prompt builder has returned.
PromptBuilt ==
  pc = "built" /\ route \in {"buildPrompt", "buildCodePrompt"}

\* The contents given to the builder, in order, its limit and its marker.
GivenContents ==
  IF route = "buildPrompt"
  THEN [i \in 1..Len(reqBody.files.items) |-> reqBody.files.items[i].content.str]
  ELSE <<reqBody.fileContent.str>>

LimitOfRoute ==
  IF route = "buildPrompt" THEN 2000 ELSE 3000

IsMarker(x) ==
  x \in {"... (truncated)", "\n... (truncated)"}

\* C21: a content within the limit is embedded unchanged and without marker,
\* a content of exactly the limit included; a longer content is embedded as
\* its first 2000 (summary) or 3000 (code) characters followed by the marker.
C21_TruncationAtLimit ==
  PromptBuilt =>
    /\ Len(prompt.sources) = Len(GivenContents)
    /\ \A i \in 1..Len(GivenContents) :
         LET content == GivenContents[i]
             embedded == prompt.sources[i]
         IN  /\ Len(content) <= LimitOfRoute => embedded = content
             /\ Len(content) > LimitOfRoute =>
                  /\ Len(embedded) = LimitOfRoute + 1
                  /\ SubSeq(embedded, 1, LimitOfRoute) = SubSeq(content, 1, LimitOfRoute)
                  /\ IsMarker(embedded[Len(embedded)])
             /\ Cardinality({ k \in 1..Len(embedded) : ~IsMarker(embedded[k]) })
                  <= LimitOfRoute

C21_Witness ==
  /\ PromptBuilt
  /\ route = "buildCodePrompt"
  /\ Len(reqBody.fileContent.str) = 3000
  /\ prompt.sources = <<reqBody.fileContent.str>>

\* The number of model invocations of the request being served.
ModelInvocations ==
  Cardinality({ i \in 1..Len(calls) : calls[i] = "generateContent" })

\* The parser has run: the invocation has a result.
ParserHasRun ==
  aiResult # NoResult

\* C22: the prompt is built before the one model invocation, the parser
\* runs only after the model has answered, a failed model call ends the
\* invocation with a failure, without a second call and without parsing, and
\* a successful invocation returns the provider label "Google Gemini".
C22_PromptModelParserOnce ==
  /\ [](route \in {"generate-summary", "generate-code"} =>
          /\ ModelInvocations <= 1
          /\ ModelInvocations = 1 =>
               /\ prompt.built
               /\ calls[Len(calls)] = "generateContent"
               /\ calls[1] \in {"generateTestSummaries", "generateTestCode"}
          /\ pc = "awaitModel" => ModelInvocations = 1 /\ ~ParserHasRun
          /\ ParserHasRun =>
               /\ pc = "done"
               /\ ModelInvocations = 1
               /\ thrown = <<>>
               /\ resStatus = 200
               /\ aiResult.aiProvider = "Google Gemini"
          /\ (pc = "done" /\ resStatus = 200) => ParserHasRun
          /\ (pc = "done" /\ thrown # <<>>) => ~ParserHasRun /\ resStatus = 500)
  /\ [][(pc = "awaitModel" /\ thrown' # <<>>) =>
          /\ pc' = "done"
          /\ calls' = calls
          /\ aiResult' = NoResult
          /\ resStatus' = 500]_vars

C22_Witness ==
  /\ route = "generate-code"
  /\ pc = "done"
  /\ ModelInvocations = 1
  /\ thrown # <<>>
  /\ thrown[1] \in ModelFailures
  /\ resStatus = 500
  /\ ~ParserHasRun

\* Every required field of the request is a non-empty string.
PlainlyWellFormed ==
  IF route = "generate-summary"
  THEN /\ reqBody.files.type = "array"
       /\ reqBody.files.items # <<>>
       /\ \A i \in 1..Len(reqBody.files.items) :
            /\ reqBody.files.items[i].type = "object"
            /\ reqBody.files.items[i].filename.type = "string"
            /\ reqBody.files.items[i].filename.str # <<>>
            /\ reqBody.files.items[i].content.type = "string"
            /\ reqBody.files.items[i].content.str # <<>>
  ELSE /\ route = "generate-code"
       /\ \A f \in {reqBody.summaryId, reqBody.summaryText, reqBody.fileContent} :
            f.type = "string" /\ f.str # <<>>
       /\ reqBody.filename.type \in {"undefined", "string"}

\* C23: without a model credential no prompt is built and no model call is
\* made, a call of generateTestSummaries or generateTestCode fails with the
\* configuration error, a well-formed request is answered with 500, and the
\* configured flag never changes.
C23_UnconfiguredFails ==
  /\ [](~aiConfigured =>
          /\ ~prompt.built
          /\ ModelInvocations = 0
          /\ pc # "awaitModel"
          /\ ~ParserHasRun
          /\ (GenerationAnswered /\ ServiceCalled) =>
               /\ thrown = <<NotConfiguredMessage>>
               /\ resStatus = 500
               /\ resBody.message = NotConfiguredMessage
          /\ (GenerationAnswered /\ PlainlyWellFormed) =>
               /\ ServiceCalled
               /\ resStatus = 500)
  /\ [][aiConfigured' = aiConfigured]_vars

C23_Witness ==
  /\ ~aiConfigured
  /\ GenerationAnswered
  /\ route = "generate-summary"
  /\ PlainlyWellFormed
  /\ calls = <<"generateTestSummaries">>
  /\ resStatus = 500
  /\ resBody.error = "Failed to generate test summaries"

\* The request had no body, and reading it threw.
BodyUnreadable ==
  thrown = <<TypeErrorOfUndefinedBody>>

\* The body violates the required shape: files missing, no array, empty, or
\* with an element that is null or lacks filename or content; summaryId,
\* summaryText or fileContent missing.
ShapeViolated ==
  \/ BodyUnreadable
  \/ /\ route = "generate-summary"
     /\ \/ reqBody.files.type # "array"
        \/ reqBody.files.items = <<>>
        \/ \E i \in 1..Len(reqBody.files.items) :
             \/ reqBody.files.items[i].type = "null"
             \/ reqBody.files.items[i].filename.type = "undefined"
             \/ reqBody.files.items[i].content.type = "undefined"
  \/ /\ route = "generate-code"
     /\ \E f \in {reqBody.summaryId, reqBody.summaryText, reqBody.fileContent} :
          f.type = "undefined"

\* C24: a request whose body violates the required shape is answered with
\* 400 and no model call is made for it, configured or not.
C24_ShapeViolation400 ==
  (GenerationAnswered /\ ShapeViolated) =>
    /\ resStatus = 400
    /\ ModelInvocations = 0

\* Every required field of the request is present, whatever its value is.
FieldsPresent ==
  /\ ~BodyUnreadable
  /\ IF route = "generate-summary"
     THEN /\ reqBody.files.type = "array"
          /\ reqBody.files.items # <<>>
          /\ \A i \in 1..Len(reqBody.files.items) :
               /\ reqBody.files.items[i].type = "object"
               /\ reqBody.files.items[i].filename.type # "undefined"
               /\ reqBody.files.items[i].content.type # "undefined"
     ELSE /\ route = "generate-code"
          /\ \A f \in {reqBody.summaryId, reqBody.summaryText, reqBody.fileContent} :
               f.type # "undefined"

\* C25: a request with every required field present, an empty content
\* included, is never answered with 400 and the generation adapter is
\* invoked for it.
C25_PresentFieldsAccepted ==
  (GenerationAnswered /\ FieldsPresent) =>
    /\ resStatus # 400
    /\ ServiceCalled

\* A route has answered with a success response.
SuccessResponse ==
  pc = "done" /\ resStatus = 200 /\ resBody.success

\* C27: in a success response of the repository list, the file list and the
\* summary route, total is the length of the returned list, and the file
\* list names the repository as owner, "/", repo of the request.
C27_TotalIsLength ==
  (SuccessResponse /\ route \in {"repos", "files", "generate-summary"}) =>
    /\ resBody.total = Len(resBody.list)
    /\ route = "files" =>
         /\ resBody.list = codeFiles
         /\ resBody.full_name = <<owner, "/", repo>>
    /\ route = "generate-summary" => resBody.list = aiResult.summaries

C27_Witness ==
  /\ SuccessResponse
  /\ route = "generate-summary"
  /\ Len(reqBody.files.items) = 1
  /\ Len(aiResult.summaries) = 2
  /\ resBody.total = 2

\* C26: requests served at once are independent.  Whatever the interleaving,
\* each request in flight is where it would be, with the calls it would have
\* issued and the response it would have got, had it been served alone
\* against the same external replies; module-level state never changes and
\* a step of one handler changes no other handler.
AsAlone(i) ==
  LET h == inflight[i]
      alone == RunAlone(h)
  IN  /\ h.pc = alone.pc
      /\ h.calls = alone.calls
      /\ h.status = alone.status
      /\ h.resBody = alone.resBody

C28_FilesOfSelectedRepo ==
  fileRequests = <<>> =>
    /\ selectedRepo = "null" => repoFiles = <<>>
    /\ \A i \in 1..Len(repoFiles) : repoFiles[i].repo = selectedRepo

\* C29: every selected path is the path of a file in the list, so the count
\* displayed (selectedFiles.size) is the number of files sent
\* (selectedFilesList.length); selecting another repository empties the
\* selection; toggling a path twice leaves the selection as it was.
C29_SelectionWithinFiles ==
  /\ [](/\ selectedFiles \subseteq PathsOf(repoFiles)
        /\ Cardinality(selectedFiles) = Len(selectedFilesList)
        /\ \A path \in ClientPaths :
             Toggle(Toggle(selectedFiles, path), path) = selectedFiles)
  /\ [][selectedRepo' # selectedRepo => selectedFiles' = {}]_vars

\* C30: every started code generation ends with its summaryId removed from
\* loadingCode; a summaryId is in loadingCode exactly while a request for it
\* is in flight; and once a generation has ended, the summary never has a
\* generated-code entry and an error entry at the same time.
C30_GenerationEnds ==
  /\ \A id \in SummaryIds : (id \in loadingCode) ~> (id \notin loadingCode)
  /\ [](loadingCode = InFlightIds)
  /\ [](\A id \in SummaryIds :
          ~(id \in DOMAIN generatedCodes /\ id \in DOMAIN codeErrors))

====
